---- MODULE Spec2Model ----
(***************************************************************************)
(* A model of morph's tabular data model (internal/model/table.go), of its *)
(* unified text-table parser and serializer                                *)
(* (internal/parser/ascii_unified.go, UnifiedASCIISerializer), of the box  *)
(* parser and serializer (ASCIIParser, ASCIISerializer) and of the format  *)
(* registry (internal/registry/registry.go).                               *)
(*                                                                         *)
(* Go strings are TLA+ strings: Len, SubSeq and \o act on them as on       *)
(* sequences of one-character strings, offsets are 1-based here and        *)
(* 0-based in the source (a Go offset k is position k+1).                  *)
(***************************************************************************)
EXTENDS Integers, Sequences, FiniteSets, TLC

VARIABLES
    pc,        \* position of the conversion: idle, value, table, serialized, input, parsed
    arg,       \* the argument of the last constructor call
    val,       \* the Value the last constructor call returned
    td,        \* the TableData handed to Serialize
    ser,       \* the UnifiedASCIISerializer: Style and RowSeparators
    widths,    \* the widths calculateWidths computed in the last Serialize
    output,    \* what Serialize wrote to its io.Writer
    serRet,    \* what Serialize returned: none, nil, error or panic
    input,     \* the stream Parse reads
    parser,    \* the UnifiedASCIIParser: DetectedStyle
    parsed,    \* what Parse returned: a table or an error
    calls,     \* the Parse calls made on the parser instance, in order
    registry,  \* Registry.formats: lower-case name to FormatInfo
    regLog,    \* the Register calls made on the registry, in order
    lookup     \* the last GetParser, GetSerializer or GetFormat call made since the
               \* last Register call, and its result

vars == <<pc, arg, val, td, ser, widths, output, serRet, input, parser, parsed,
          calls, registry, regLog, lookup>>

(***************************************************************************)
(* Bounds of the model.                                                    *)
(***************************************************************************)
MaxRawLen == 2
MaxCols == 2
MaxRows == 2
MaxLines == 3
MaxCalls == 3
MaxRegisters == 2

(***************************************************************************)
(* Strings: the functions of Go's strings package the code calls.          *)
(***************************************************************************)
Ch(s, i) == SubSeq(s, i, i)

Max(a, b) == IF a >= b THEN a ELSE b


\* unicode.IsSpace restricted to the characters of the model
IsSpace(c) == c \in {" ", "\t", "\r", "\n"}

\* strings.Contains(s, c) and strings.ContainsAny(s, chars) for one-character needles
Contains(s, c) == \E i \in 1..Len(s) : Ch(s, i) = c

ContainsAny(s, chars) == \E i \in 1..Len(s) : Ch(s, i) \in chars

HasPrefix(s, p) == Len(s) >= Len(p) /\ SubSeq(s, 1, Len(p)) = p

HasSuffix(s, p) == Len(s) >= Len(p) /\ SubSeq(s, Len(s) - Len(p) + 1, Len(s)) = p

\* strings.Trim(s, cutset): cut every leading and trailing character of cutset
TrimSet(s, cutset) ==
    LET keep == {i \in 1..Len(s) : Ch(s, i) \notin cutset}
    IN  IF keep = {} THEN ""
        ELSE LET lo == CHOOSE i \in keep : \A j \in keep : i <= j
                 hi == CHOOSE i \in keep : \A j \in keep : i >= j
             IN  SubSeq(s, lo, hi)

TrimSpace(s) == TrimSet(s, {" ", "\t", "\r", "\n"})

UpperLetters == "ABCDEFGHIJKLMNOPQRSTUVWXYZ"

LowerLetters == "abcdefghijklmnopqrstuvwxyz"

LowerCh(c) ==
    IF \E i \in 1..26 : Ch(UpperLetters, i) = c
    THEN Ch(LowerLetters, CHOOSE i \in 1..26 : Ch(UpperLetters, i) = c)
    ELSE c

RECURSIVE ToLower(_)
ToLower(s) == IF s = "" THEN "" ELSE LowerCh(Ch(s, 1)) \o ToLower(SubSeq(s, 2, Len(s)))

\* strings.Repeat(c, n) for n >= 0; a negative n panics in Go, see PadPanics
RECURSIVE Repeat(_, _)
Repeat(c, n) == IF n <= 0 THEN "" ELSE c \o Repeat(c, n - 1)


\* every string over the characters of alphabet of length at most n
RECURSIVE StringsUpTo(_, _)
StringsUpTo(alphabet, n) ==
    IF n = 0 THEN {""}
    ELSE LET shorter == StringsUpTo(alphabet, n - 1)
         IN  shorter \cup {s \o c : s \in shorter, c \in alphabet}

\* every sequence over S of length at most n
RECURSIVE SeqsUpTo(_, _)
SeqsUpTo(S, n) ==
    IF n = 0 THEN {<<>>}
    ELSE LET shorter == SeqsUpTo(S, n - 1)
         IN  shorter \cup {Append(q, x) : q \in shorter, x \in S}

SeqsOfLen(S, n) == {q \in SeqsUpTo(S, n) : Len(q) = n}

(***************************************************************************)
(* strconv.ParseFloat(s, 64) and strconv.FormatFloat(f, 'f', -1, 64).      *)
(* A float64 is modelled by its decimal value mant * 10^exp with mant not  *)
(* divisible by 10 (zero is mant 0, exp 0), or is NaN or an infinity.      *)
(* Covered: the decimal grammar [+-]digits[.digits][(e|E)[+-]digits], the  *)
(* words inf, infinity, nan, and the range error of values beyond float64. *)
(* Not covered: hexadecimal floats and digit-separating underscores (the   *)
(* input alphabets below hold neither 'x' nor '_').                        *)
(***************************************************************************)
Digits == "0123456789"

IsDigit(c) == \E i \in 1..10 : Ch(Digits, i) = c

DigitVal(c) == (CHOOSE i \in 1..10 : Ch(Digits, i) = c) - 1

AllDigits(s) == \A i \in 1..Len(s) : IsDigit(Ch(s, i))

RECURSIVE DigitsToInt(_)
DigitsToInt(s) ==
    IF s = "" THEN 0
    ELSE 10 * DigitsToInt(SubSeq(s, 1, Len(s) - 1)) + DigitVal(Ch(s, Len(s)))

RECURSIVE Pow10(_)
Pow10(n) == IF n <= 0 THEN 1 ELSE 10 * Pow10(n - 1)

RECURSIVE NumDigits(_)
NumDigits(n) == IF n < 10 THEN 1 ELSE 1 + NumDigits(n \div 10)

RECURSIVE Normalize(_, _)
Normalize(mant, exp) ==
    IF mant = 0 THEN [k |-> "fin", neg |-> FALSE, mant |-> 0, exp |-> 0]
    ELSE IF mant % 10 = 0 THEN Normalize(mant \div 10, exp + 1)
    ELSE [k |-> "fin", neg |-> FALSE, mant |-> mant, exp |-> exp]

Finite(neg, mant, exp) == [Normalize(mant, exp) EXCEPT !.neg = neg]

NaN == [k |-> "nan"]

Inf(neg) == [k |-> "inf", neg |-> neg]

\* the value exceeds math.MaxFloat64 (about 1.7977e308): ParseFloat returns ErrRange
Overflows(f) ==
    /\ f.k = "fin"
    /\ f.mant # 0
    /\ LET nd == NumDigits(f.mant)
           sci == nd + f.exp - 1
           lead == IF nd >= 4 THEN f.mant \div Pow10(nd - 4) ELSE f.mant * Pow10(4 - nd)
       IN  sci > 308 \/ (sci = 308 /\ lead >= 1798)

NoFloat == [ok |-> FALSE]

\* the unsigned decimal part: digits[.digits][(e|E)[+-]digits]
ParseDecimal(neg, s) ==
    LET epos == {i \in 1..Len(s) : Ch(s, i) \in {"e", "E"}}
        e1 == IF epos = {} THEN Len(s) + 1 ELSE CHOOSE i \in epos : \A j \in epos : i <= j
        mpart == SubSeq(s, 1, e1 - 1)
        epart == SubSeq(s, e1 + 1, Len(s))
        esign == IF epart # "" /\ Ch(epart, 1) \in {"+", "-"} THEN Ch(epart, 1) ELSE ""
        edigits == IF esign = "" THEN epart ELSE SubSeq(epart, 2, Len(epart))
        dots == {i \in 1..Len(mpart) : Ch(mpart, i) = "."}
        d1 == IF dots = {} THEN Len(mpart) + 1 ELSE CHOOSE i \in dots : TRUE
        ipart == SubSeq(mpart, 1, d1 - 1)
        fpart == SubSeq(mpart, d1 + 1, Len(mpart))
        wellFormed ==
            /\ Cardinality(dots) <= 1
            /\ AllDigits(ipart) /\ AllDigits(fpart)
            /\ Len(ipart) + Len(fpart) >= 1
            /\ (epos # {} => edigits # "" /\ AllDigits(edigits))
    IN  IF ~wellFormed THEN NoFloat
        ELSE LET ev == IF epos = {} THEN 0
                       ELSE IF esign = "-" THEN 0 - DigitsToInt(edigits)
                       ELSE DigitsToInt(edigits)
                 f == Finite(neg, DigitsToInt(ipart \o fpart), ev - Len(fpart))
             IN  IF Overflows(f) THEN NoFloat ELSE [ok |-> TRUE, f |-> f]

ParseFloat(s) ==
    LET signed == s # "" /\ Ch(s, 1) \in {"+", "-"}
        neg == signed /\ Ch(s, 1) = "-"
        body == IF signed THEN SubSeq(s, 2, Len(s)) ELSE s
    IN  IF ToLower(body) \in {"inf", "infinity"} THEN [ok |-> TRUE, f |-> Inf(neg)]
        ELSE IF ~signed /\ ToLower(s) = "nan" THEN [ok |-> TRUE, f |-> NaN]
        ELSE ParseDecimal(neg, body)

\* the digits of a natural number
RECURSIVE IntToDigits(_)
IntToDigits(n) ==
    IF n < 10 THEN Ch(Digits, n + 1)
    ELSE IntToDigits(n \div 10) \o Ch(Digits, (n % 10) + 1)

FormatFloat(f) ==
    IF f.k = "nan" THEN "NaN"
    ELSE IF f.k = "inf" THEN (IF f.neg THEN "-Inf" ELSE "+Inf")
    ELSE LET ds == IntToDigits(f.mant)
             sign == IF f.neg THEN "-" ELSE ""
         IN  IF f.exp >= 0 THEN sign \o ds \o Repeat("0", f.exp)
             ELSE IF Len(ds) > 0 - f.exp
                  THEN sign \o SubSeq(ds, 1, Len(ds) + f.exp) \o "."
                            \o SubSeq(ds, Len(ds) + f.exp + 1, Len(ds))
                  ELSE sign \o "0." \o Repeat("0", (0 - f.exp) - Len(ds)) \o ds

(***************************************************************************)
(* internal/model/table.go: Value and its constructors.                    *)
(* Parsed is an interface{}: a tagged record stands for its dynamic type.  *)
(***************************************************************************)
TypeString == "String"

TypeNumber == "Number"

TypeBoolean == "Boolean"

TypeNull == "Null"

ParsedString(s) == [tag |-> "string", s |-> s]

ParsedFloat(f) == [tag |-> "float64", f |-> f]

ParsedBool(b) == [tag |-> "bool", b |-> b]

ParsedNil == [tag |-> "nil"]

\* mutant of NewValue: the number test comes before the boolean test
NewValueNumberFirst(raw) ==
    IF raw = "" THEN [Type |-> TypeNull, Raw |-> raw, Parsed |-> ParsedNil]
    ELSE LET trimmed == TrimSpace(raw)
             lower == ToLower(trimmed)
             num == ParseFloat(trimmed)
         IN  IF num.ok
             THEN [Type |-> TypeNumber, Raw |-> raw, Parsed |-> ParsedFloat(num.f)]
             ELSE IF lower \in {"true", "yes", "1"}
             THEN [Type |-> TypeBoolean, Raw |-> raw, Parsed |-> ParsedBool(TRUE)]
             ELSE IF lower \in {"false", "no", "0"}
             THEN [Type |-> TypeBoolean, Raw |-> raw, Parsed |-> ParsedBool(FALSE)]
             ELSE [Type |-> TypeString, Raw |-> raw, Parsed |-> ParsedString(raw)]

\* mutant of NewValue: the empty text is not Null but an inferred String
NewValueEmptyIsString(raw) ==
    LET trimmed == TrimSpace(raw)
        lower == ToLower(trimmed)
        num == ParseFloat(trimmed)
    IN  IF lower \in {"true", "yes", "1"}
        THEN [Type |-> TypeBoolean, Raw |-> raw, Parsed |-> ParsedBool(TRUE)]
        ELSE IF lower \in {"false", "no", "0"}
        THEN [Type |-> TypeBoolean, Raw |-> raw, Parsed |-> ParsedBool(FALSE)]
        ELSE IF num.ok
        THEN [Type |-> TypeNumber, Raw |-> raw, Parsed |-> ParsedFloat(num.f)]
        ELSE [Type |-> TypeString, Raw |-> raw, Parsed |-> ParsedString(raw)]

NewValue(raw) ==
    IF raw = "" THEN [Type |-> TypeNull, Raw |-> raw, Parsed |-> ParsedNil]
    ELSE LET trimmed == TrimSpace(raw)
             lower == ToLower(trimmed)
             num == ParseFloat(trimmed)
         IN  IF lower \in {"true", "yes", "1"}
             THEN [Type |-> TypeBoolean, Raw |-> raw, Parsed |-> ParsedBool(TRUE)]
             ELSE IF lower \in {"false", "no", "0"}
             THEN [Type |-> TypeBoolean, Raw |-> raw, Parsed |-> ParsedBool(FALSE)]
             ELSE IF num.ok
             THEN [Type |-> TypeNumber, Raw |-> raw, Parsed |-> ParsedFloat(num.f)]
             ELSE [Type |-> TypeString, Raw |-> raw, Parsed |-> ParsedString(raw)]

NewStringValue(s) == [Type |-> TypeString, Raw |-> s, Parsed |-> ParsedString(s)]

NewNumberValue(n) == [Type |-> TypeNumber, Raw |-> FormatFloat(n), Parsed |-> ParsedFloat(n)]

NewBooleanValue(b) ==
    [Type |-> TypeBoolean, Raw |-> IF b THEN "true" ELSE "false", Parsed |-> ParsedBool(b)]

NewNullValue == [Type |-> TypeNull, Raw |-> "", Parsed |-> ParsedNil]

(***************************************************************************)
(* internal/model/table.go: TableData, NewTableData, normalizeRow,         *)
(* Validate.                                                               *)
(***************************************************************************)
NilTable == [nil |-> TRUE]

\* mutant of normalizeRow: a long row is returned as it is, not truncated
normalizeRowNoTruncate(row, numCols) ==
    IF Len(row) >= numCols THEN row
    ELSE [i \in 1..numCols |-> IF i <= Len(row) THEN row[i] ELSE NewNullValue]

normalizeRow(row, numCols) ==
    IF Len(row) = numCols THEN row
    ELSE LET copyLen == IF Len(row) > numCols THEN numCols ELSE Len(row)
         IN  [i \in 1..numCols |-> IF i <= copyLen THEN row[i] ELSE NewNullValue]

NewTableData(headers, rows) ==
    [Headers |-> headers,
     Rows |-> [i \in 1..Len(rows) |-> normalizeRow(rows[i], Len(headers))]]

\* the error Validate returns, "" for nil
Validate(t) ==
    IF t = NilTable THEN "TableData is nil"
    ELSE IF \E i \in 1..Len(t.Rows) : Len(t.Rows[i]) # Len(t.Headers)
    THEN "row has wrong number of columns"
    ELSE ""

(***************************************************************************)
(* UnifiedASCIISerializer (internal/registry/registry.go, lines 431-837).  *)
(* A rendered table is the string written to the io.Writer.                *)
(***************************************************************************)
StyleBox == "box"

StylePsql == "psql"

StyleMarkdown == "md"

StyleOrgMode == "org"

StyleRSTGrid == "rst-grid"

StyleRSTSimple == "rst-simple"

Styles == {StyleBox, StylePsql, StyleMarkdown, StyleOrgMode, StyleRSTGrid, StyleRSTSimple}

\* NewUnifiedASCIISerializer(style): the empty style is the box style
NewUnifiedASCIISerializer(style) ==
    [Style |-> IF style = "" THEN StyleBox ELSE style, RowSeparators |-> FALSE]

RECURSIVE Concat(_)
Concat(ss) == IF Len(ss) = 0 THEN "" ELSE ss[1] \o Concat(Tail(ss))

unifiedValueToString(v) ==
    CASE v.Type = TypeNull -> ""
      [] v.Type = TypeBoolean ->
            IF v.Parsed.tag = "bool" THEN (IF v.Parsed.b THEN "true" ELSE "false") ELSE v.Raw
      [] v.Type = TypeNumber -> v.Raw
      [] v.Type = TypeString -> IF v.Parsed.tag = "string" THEN v.Parsed.s ELSE v.Raw
      [] OTHER -> v.Raw

rowToCells(row, headers) ==
    [i \in 1..Len(headers) |-> IF i <= Len(row) THEN unifiedValueToString(row[i]) ELSE ""]

\* the largest of a finite non-empty set of integers
MaxOf(S) == CHOOSE x \in S : \A y \in S : y <= x

\* mutant of calculateWidths: the data rows are not looked at
calculateWidthsHeadersOnly(data) ==
    [i \in 1..Len(data.Headers) |-> Max(3, Len(data.Headers[i]))]

\* mutant of calculateWidths: no minimum width
calculateWidthsNoFloor(data) ==
    [i \in 1..Len(data.Headers) |->
        MaxOf({Len(data.Headers[i])} \cup
              {Len(unifiedValueToString(data.Rows[r][i])) :
                  r \in {r \in 1..Len(data.Rows) : i <= Len(data.Rows[r])}})]

calculateWidths(data) ==
    [i \in 1..Len(data.Headers) |->
        LET cellLens == {Len(unifiedValueToString(data.Rows[r][i])) :
                            r \in {r \in 1..Len(data.Rows) : i <= Len(data.Rows[r])}}
            w == MaxOf({Len(data.Headers[i])} \cup cellLens)
        IN  IF w < 3 THEN 3 ELSE w]

\* strings.Repeat(" ", widths[i]-len(cell)) panics when the count is negative
PadPanics(cells, ws) ==
    \E i \in 1..Len(cells) : i <= Len(ws) /\ ws[i] - Len(cells[i]) < 0

Pad(cells, ws, i) == IF i <= Len(ws) THEN Repeat(" ", ws[i] - Len(cells[i])) ELSE ""

buildBorder(ws, corner, fill, sep) ==
    corner \o Concat([i \in 1..Len(ws) |->
        Repeat(fill, ws[i] + 2) \o (IF i < Len(ws) THEN sep ELSE corner)])

\* mutant of buildRow: the cells are not padded to the column width
buildRowUnpadded(cells, ws, border) ==
    border \o Concat([i \in 1..Len(cells) |-> " " \o cells[i] \o " " \o border])

buildRow(cells, ws, border) ==
    border \o Concat([i \in 1..Len(cells) |->
        " " \o cells[i] \o Pad(cells, ws, i) \o " " \o border])

buildPsqlRow(cells, ws) ==
    Concat([i \in 1..Len(cells) |->
        cells[i] \o Pad(cells, ws, i) \o (IF i < Len(cells) THEN " | " ELSE "")])

\* mutant of buildPsqlSeparator: the columns are joined by "+" alone
buildPsqlSeparatorNarrow(ws) ==
    Concat([i \in 1..Len(ws) |-> Repeat("-", ws[i]) \o (IF i < Len(ws) THEN "+" ELSE "")])

buildPsqlSeparator(ws) ==
    Concat([i \in 1..Len(ws) |-> Repeat("-", ws[i]) \o (IF i < Len(ws) THEN "-+-" ELSE "")])

buildRSTSimpleSeparator(ws) ==
    Concat([i \in 1..Len(ws) |-> Repeat("=", ws[i]) \o (IF i < Len(ws) THEN "  " ELSE "")])

\* mutant of buildRSTSimpleRow: the last cell of a row is not padded
buildRSTSimpleRowNoLastPad(cells, ws) ==
    Concat([i \in 1..Len(cells) |->
        cells[i] \o (IF i < Len(cells) THEN Pad(cells, ws, i) \o "  " ELSE "")])

buildRSTSimpleRow(cells, ws) ==
    Concat([i \in 1..Len(cells) |->
        cells[i] \o Pad(cells, ws, i) \o (IF i < Len(cells) THEN "  " ELSE "")])

\* mutant of DataLines: a divider follows the last data row too
DataLinesTrailingDivider(data, ws, rowSep) ==
    [i \in 1..Len(data.Rows) |->
        buildRow(rowToCells(data.Rows[i], data.Headers), ws, "|") \o "\n"
        \o (IF rowSep THEN buildBorder(ws, "+", "-", "+") \o "\n" ELSE "")]

\* the lines of the data rows, with a divider after every row but the last
\* when rowSep is set (serializeBox and serializeRSTGrid only)
DataLines(data, ws, rowSep) ==
    [i \in 1..Len(data.Rows) |->
        buildRow(rowToCells(data.Rows[i], data.Headers), ws, "|") \o "\n"
        \o (IF rowSep /\ i < Len(data.Rows)
            THEN buildBorder(ws, "+", "-", "+") \o "\n" ELSE "")]

serializeBox(data, s) ==
    LET ws == calculateWidths(data)
    IN  buildBorder(ws, "+", "-", "+") \o "\n"
        \o buildRow(data.Headers, ws, "|") \o "\n"
        \o buildBorder(ws, "+", "-", "+") \o "\n"
        \o Concat(DataLines(data, ws, s.RowSeparators))
        \o buildBorder(ws, "+", "-", "+") \o "\n"

serializePsql(data, s) ==
    LET ws == calculateWidths(data)
    IN  buildPsqlRow(data.Headers, ws) \o "\n"
        \o buildPsqlSeparator(ws) \o "\n"
        \o Concat([i \in 1..Len(data.Rows) |->
              buildPsqlRow(rowToCells(data.Rows[i], data.Headers), ws) \o "\n"])

serializeMarkdown(data, s) ==
    LET ws == calculateWidths(data)
    IN  buildRow(data.Headers, ws, "|") \o "\n"
        \o "|" \o Concat([i \in 1..Len(ws) |-> " " \o Repeat("-", ws[i]) \o " |"]) \o "\n"
        \o Concat(DataLines(data, ws, FALSE))

serializeOrgMode(data, s) ==
    LET ws == calculateWidths(data)
    IN  buildRow(data.Headers, ws, "|") \o "\n"
        \o "|" \o Concat([i \in 1..Len(ws) |->
              Repeat("-", ws[i] + 2) \o (IF i < Len(ws) THEN "+" ELSE "|")]) \o "\n"
        \o Concat(DataLines(data, ws, FALSE))

serializeRSTGrid(data, s) ==
    LET ws == calculateWidths(data)
    IN  buildBorder(ws, "+", "-", "+") \o "\n"
        \o buildRow(data.Headers, ws, "|") \o "\n"
        \o buildBorder(ws, "+", "=", "+") \o "\n"
        \o Concat(DataLines(data, ws, s.RowSeparators))
        \o buildBorder(ws, "+", "-", "+") \o "\n"

serializeRSTSimple(data, s) ==
    LET ws == calculateWidths(data)
    IN  buildRSTSimpleSeparator(ws) \o "\n"
        \o buildRSTSimpleRow(data.Headers, ws) \o "\n"
        \o buildRSTSimpleSeparator(ws) \o "\n"
        \o Concat([i \in 1..Len(data.Rows) |->
              buildRSTSimpleRow(rowToCells(data.Rows[i], data.Headers), ws) \o "\n"])
        \o buildRSTSimpleSeparator(ws) \o "\n"

\* some strings.Repeat of the rendering gets a negative count
RenderPanics(data) ==
    LET ws == calculateWidths(data)
    IN  \/ PadPanics(data.Headers, ws)
        \/ \E i \in 1..Len(data.Rows) : PadPanics(rowToCells(data.Rows[i], data.Headers), ws)

\* the rendering of a valid table in the serializer's style
Render(s, data) ==
    IF RenderPanics(data) THEN [ret |-> "panic", msg |-> "", out |-> ""]
    ELSE [ret |-> "nil", msg |-> "",
          out |-> CASE s.Style = StyleRSTSimple -> serializeRSTSimple(data, s)
                    [] s.Style = StyleMarkdown -> serializeMarkdown(data, s)
                    [] s.Style = StyleOrgMode -> serializeOrgMode(data, s)
                    [] s.Style = StylePsql -> serializePsql(data, s)
                    [] s.Style = StyleRSTGrid -> serializeRSTGrid(data, s)
                    [] OTHER -> serializeBox(data, s)]

\* mutant of Serialize: a table without headers is rendered like any other
SerializeNoEmptyCheck(s, data) ==
    IF data = NilTable THEN [ret |-> "error", msg |-> "TableData is nil", out |-> ""]
    ELSE IF Validate(data) # "" THEN [ret |-> "error", msg |-> "invalid TableData", out |-> ""]
    ELSE Render(s, data)

\* Serialize(data, output): ret is nil, error or panic; out is what was written
Serialize(s, data) ==
    IF data = NilTable THEN [ret |-> "error", msg |-> "TableData is nil", out |-> ""]
    ELSE IF Validate(data) # "" THEN [ret |-> "error", msg |-> "invalid TableData", out |-> ""]
    ELSE IF Len(data.Headers) = 0 THEN [ret |-> "nil", msg |-> "", out |-> ""]
    ELSE Render(s, data)

(***************************************************************************)
(* UnifiedASCIIParser (internal/parser/ascii_unified.go).                  *)
(* Offsets in boundaries and spans are the source's 0-based byte offsets.  *)
(***************************************************************************)
\* bufio.Scanner with ScanLines: the text between line feeds, one trailing
\* carriage return dropped, no empty last line after a final line feed
RECURSIVE ScanLines(_)
ScanLines(s) ==
    IF s = "" THEN <<>>
    ELSE LET nls == {i \in 1..Len(s) : Ch(s, i) = "\n"}
             n1 == IF nls = {} THEN Len(s) + 1 ELSE CHOOSE i \in nls : \A j \in nls : i <= j
             line == SubSeq(s, 1, n1 - 1)
             text == IF HasSuffix(line, "\r") THEN SubSeq(line, 1, Len(line) - 1) ELSE line
         IN  <<text>> \o ScanLines(SubSeq(s, n1 + 1, Len(s)))

RECURSIVE SelectNonBlank(_)
SelectNonBlank(ls) ==
    IF Len(ls) = 0 THEN <<>>
    ELSE (IF TrimSpace(ls[1]) # "" THEN <<ls[1]>> ELSE <<>>) \o SelectNonBlank(Tail(ls))

\* Parse, lines 36-45: the non-blank lines of the input
ReadLines(in) == SelectNonBlank(ScanLines(in))

\* the elements of a finite set of integers in increasing order
RECURSIVE SortedSeq(_)
SortedSeq(S) ==
    IF S = {} THEN <<>>
    ELSE LET m == CHOOSE x \in S : \A y \in S : x <= y
         IN  <<m>> \o SortedSeq(S \ {m})

SeparatorChars == {"+", "-", "=", "|", ":", " ", "\t"}

isSeparatorLine(line) ==
    /\ \A i \in 1..Len(line) : Ch(line, i) \in SeparatorChars
    /\ ContainsAny(line, {"-", "="})

\* a line of '=' and whitespace only (isRSTSimple, parseRSTSimple)
IsEqualsLine(line) ==
    LET trimmed == TrimSpace(line)
    IN  Len(trimmed) > 0 /\ TrimSet(trimmed, {"=", " ", "\t"}) = ""

\* mutant of isRSTSimple: the lines are not searched for '|'
isRSTSimpleIgnoresBars(lines) == \E i \in 1..Len(lines) : IsEqualsLine(lines[i])

isRSTSimple(lines) ==
    LET hasEquals == \E i \in 1..Len(lines) : IsEqualsLine(lines[i])
        hasPipes == \E i \in 1..Len(lines) : Contains(lines[i], "|")
    IN  hasEquals /\ ~hasPipes

\* mutant of hasIntersectionPlus: the separator is required to start with '+'
hasIntersectionPlusWrongPrefix(sepLine) ==
    LET trimmed == TrimSpace(sepLine)
    IN  IF ~HasPrefix(trimmed, "+") THEN FALSE
        ELSE Contains(TrimSet(trimmed, {"|"}), "+")

\* mutant of hasIntersectionPlus: the separator is required to end with '|' too
hasIntersectionPlusBothBars(sepLine) ==
    LET trimmed == TrimSpace(sepLine)
    IN  IF ~HasPrefix(trimmed, "|") \/ ~HasSuffix(trimmed, "|") THEN FALSE
        ELSE Contains(TrimSet(trimmed, {"|"}), "+")

hasIntersectionPlus(sepLine) ==
    LET trimmed == TrimSpace(sepLine)
    IN  IF ~HasPrefix(trimmed, "|") THEN FALSE
        ELSE Contains(TrimSet(trimmed, {"|"}), "+")

\* the indices of the separator lines, in order
SepIndices(lines) == SortedSeq({i \in 1..Len(lines) : isSeparatorLine(lines[i])})

\* mutant of detectStyle: only the first separator line is searched for the
\* '+' and '=' of rst-grid
detectStyleFirstSeparatorOnly(lines) ==
    IF isRSTSimple(lines) THEN StyleRSTSimple
    ELSE LET seps == SepIndices(lines)
         IN  IF Len(seps) = 0 THEN StyleBox
             ELSE IF \E k \in {1} :
                        Contains(lines[seps[k]], "=") /\ Contains(lines[seps[k]], "+")
             THEN StyleRSTGrid
             ELSE LET sepLine == lines[seps[1]]
                      \* the first line equal to sepLine, as a 0-based index
                      sepIndex == (CHOOSE i \in 1..Len(lines) :
                                      /\ lines[i] = sepLine
                                      /\ \A j \in 1..(i - 1) : lines[j] # sepLine) - 1
                      trimmed == TrimSpace(sepLine)
                  IN  IF Len(trimmed) > 0 /\ Ch(trimmed, 1) # "|" /\ Ch(trimmed, 1) # "+"
                      THEN StylePsql
                      ELSE IF HasPrefix(trimmed, "+") /\ HasSuffix(trimmed, "+")
                      THEN StyleBox
                      ELSE IF Contains(sepLine, "+")
                      THEN (IF /\ sepIndex > 0
                               /\ HasPrefix(TrimSpace(lines[sepIndex]), "|")
                               /\ hasIntersectionPlus(sepLine)
                            THEN StyleOrgMode
                            ELSE StyleBox)
                      ELSE StyleMarkdown

\* mutant of detectStyle: psql only when the first separator line starts with '-'
detectStylePsqlDashOnly(lines) ==
    IF isRSTSimple(lines) THEN StyleRSTSimple
    ELSE LET seps == SepIndices(lines)
         IN  IF Len(seps) = 0 THEN StyleBox
             ELSE IF \E k \in 1..Len(seps) :
                        Contains(lines[seps[k]], "=") /\ Contains(lines[seps[k]], "+")
             THEN StyleRSTGrid
             ELSE LET sepLine == lines[seps[1]]
                      \* the first line equal to sepLine, as a 0-based index
                      sepIndex == (CHOOSE i \in 1..Len(lines) :
                                      /\ lines[i] = sepLine
                                      /\ \A j \in 1..(i - 1) : lines[j] # sepLine) - 1
                      trimmed == TrimSpace(sepLine)
                  IN  IF Len(trimmed) > 0 /\ Ch(trimmed, 1) = "-"
                      THEN StylePsql
                      ELSE IF HasPrefix(trimmed, "+") /\ HasSuffix(trimmed, "+")
                      THEN StyleBox
                      ELSE IF Contains(sepLine, "+")
                      THEN (IF /\ sepIndex > 0
                               /\ HasPrefix(TrimSpace(lines[sepIndex]), "|")
                               /\ hasIntersectionPlus(sepLine)
                            THEN StyleOrgMode
                            ELSE StyleBox)
                      ELSE StyleMarkdown

\* mutant of detectStyle: markdown is the default when no line is a separator
detectStyleDefaultMarkdown(lines) ==
    IF isRSTSimple(lines) THEN StyleRSTSimple
    ELSE LET seps == SepIndices(lines)
         IN  IF Len(seps) = 0 THEN StyleMarkdown
             ELSE IF \E k \in 1..Len(seps) :
                        Contains(lines[seps[k]], "=") /\ Contains(lines[seps[k]], "+")
             THEN StyleRSTGrid
             ELSE LET sepLine == lines[seps[1]]
                      \* the first line equal to sepLine, as a 0-based index
                      sepIndex == (CHOOSE i \in 1..Len(lines) :
                                      /\ lines[i] = sepLine
                                      /\ \A j \in 1..(i - 1) : lines[j] # sepLine) - 1
                      trimmed == TrimSpace(sepLine)
                  IN  IF Len(trimmed) > 0 /\ Ch(trimmed, 1) # "|" /\ Ch(trimmed, 1) # "+"
                      THEN StylePsql
                      ELSE IF HasPrefix(trimmed, "+") /\ HasSuffix(trimmed, "+")
                      THEN StyleBox
                      ELSE IF Contains(sepLine, "+")
                      THEN (IF /\ sepIndex > 0
                               /\ HasPrefix(TrimSpace(lines[sepIndex]), "|")
                               /\ hasIntersectionPlus(sepLine)
                            THEN StyleOrgMode
                            ELSE StyleBox)
                      ELSE StyleMarkdown

detectStyle(lines) ==
    IF isRSTSimple(lines) THEN StyleRSTSimple
    ELSE LET seps == SepIndices(lines)
         IN  IF Len(seps) = 0 THEN StyleBox
             ELSE IF \E k \in 1..Len(seps) :
                        Contains(lines[seps[k]], "=") /\ Contains(lines[seps[k]], "+")
             THEN StyleRSTGrid
             ELSE LET sepLine == lines[seps[1]]
                      \* the first line equal to sepLine, as a 0-based index
                      sepIndex == (CHOOSE i \in 1..Len(lines) :
                                      /\ lines[i] = sepLine
                                      /\ \A j \in 1..(i - 1) : lines[j] # sepLine) - 1
                      trimmed == TrimSpace(sepLine)
                  IN  IF Len(trimmed) > 0 /\ Ch(trimmed, 1) # "|" /\ Ch(trimmed, 1) # "+"
                      THEN StylePsql
                      ELSE IF HasPrefix(trimmed, "+") /\ HasSuffix(trimmed, "+")
                      THEN StyleBox
                      ELSE IF Contains(sepLine, "+")
                      THEN (IF /\ sepIndex > 0
                               /\ HasPrefix(TrimSpace(lines[sepIndex]), "|")
                               /\ hasIntersectionPlus(sepLine)
                            THEN StyleOrgMode
                            ELSE StyleBox)
                      ELSE StyleMarkdown

MaxLineLen(lines) == IF Len(lines) = 0 THEN 0 ELSE MaxOf({Len(lines[i]) : i \in 1..Len(lines)})

\* the 0-based offsets of character c in line, in order
OffsetsOf(line, c) == SortedSeq({i - 1 : i \in {j \in 1..Len(line) : Ch(line, j) = c}})

\* mutant of findColumnBoundaries: the '+' offsets of a separator line are
\* used whatever the style
findColumnBoundariesAnyStyle(lines, style) ==
    LET plusSeps == {i \in 1..Len(lines) :
                        isSeparatorLine(lines[i]) /\ Contains(lines[i], "+")}
        cand == {i \in 1..Len(lines) :
                    /\ ~isSeparatorLine(lines[i])
                    /\ Contains(lines[i], "|")
                    /\ Len(OffsetsOf(lines[i], "|")) >= 2}
    IN  IF plusSeps # {}
        THEN <<0>> \o OffsetsOf(lines[CHOOSE i \in plusSeps : \A j \in plusSeps : i <= j], "+")
                   \o <<MaxLineLen(lines)>>
        ELSE IF cand = {} THEN <<>>
        ELSE OffsetsOf(lines[CHOOSE i \in cand : \A j \in cand : i <= j], "|")

\* mutant of findColumnBoundaries: only the first non-separator line with a
\* '|' is looked at
findColumnBoundariesFirstBarLine(lines, style) ==
    LET psqlSeps == {i \in 1..Len(lines) :
                        isSeparatorLine(lines[i]) /\ Contains(lines[i], "+")}
        cand == {i \in 1..Len(lines) :
                    /\ ~isSeparatorLine(lines[i])
                    /\ Contains(lines[i], "|")}
        first == OffsetsOf(lines[CHOOSE i \in cand : \A j \in cand : i <= j], "|")
    IN  IF style = StylePsql /\ psqlSeps # {}
        THEN <<0>> \o OffsetsOf(lines[CHOOSE i \in psqlSeps : \A j \in psqlSeps : i <= j], "+")
                   \o <<MaxLineLen(lines)>>
        ELSE IF cand = {} THEN <<>>
        ELSE IF Len(first) >= 2 THEN first ELSE <<>>

\* nil is the empty sequence
findColumnBoundaries(lines, style) ==
    LET psqlSeps == {i \in 1..Len(lines) :
                        isSeparatorLine(lines[i]) /\ Contains(lines[i], "+")}
        cand == {i \in 1..Len(lines) :
                    /\ ~isSeparatorLine(lines[i])
                    /\ Contains(lines[i], "|")
                    /\ Len(OffsetsOf(lines[i], "|")) >= 2}
    IN  IF style = StylePsql /\ psqlSeps # {}
        THEN <<0>> \o OffsetsOf(lines[CHOOSE i \in psqlSeps : \A j \in psqlSeps : i <= j], "+")
                   \o <<MaxLineLen(lines)>>
        ELSE IF cand = {} THEN <<>>
        ELSE OffsetsOf(lines[CHOOSE i \in cand : \A j \in cand : i <= j], "|")

\* line[start:end] of Go, 0-based and half open
Slice(line, start, end) == SubSeq(line, start + 1, end)

\* mutant of parseDataRow: a column that starts beyond the end of the line
\* gives no cell
parseDataRowSkipsShort(line, boundaries, style) ==
    LET reach == {i \in 1..(Len(boundaries) - 1) :
                     (IF style = StylePsql THEN boundaries[i] ELSE boundaries[i] + 1) < Len(line)}
    IN  [i \in 1..Cardinality(reach) |->
            LET end == boundaries[i + 1]
                start == IF style = StylePsql THEN boundaries[i] ELSE boundaries[i] + 1
                cell == Slice(line, start, IF end <= Len(line) THEN end ELSE Len(line))
            IN  IF style = StylePsql THEN TrimSpace(TrimSet(cell, {"|"})) ELSE TrimSpace(cell)]

parseDataRow(line, boundaries, style) ==
    [i \in 1..(Len(boundaries) - 1) |->
        LET end == boundaries[i + 1]
        IN  IF style = StylePsql
            THEN LET start == boundaries[i]
                 IN  IF start < Len(line) /\ end <= Len(line)
                     THEN TrimSpace(TrimSet(Slice(line, start, end), {"|"}))
                     ELSE IF start < Len(line)
                     THEN TrimSpace(TrimSet(Slice(line, start, Len(line)), {"|"}))
                     ELSE ""
            ELSE LET start == boundaries[i] + 1
                 IN  IF start < Len(line) /\ end <= Len(line)
                     THEN TrimSpace(Slice(line, start, end))
                     ELSE IF start < Len(line)
                     THEN TrimSpace(Slice(line, start, Len(line)))
                     ELSE ""]

\* the slice expressions parseDataRow evaluates, column by column: <<start, end>>
\* for line[start:end] (line[start:] is line[start:len(line)]), <<>> for a
\* column that appends "" without slicing
parseDataRowSlices(line, boundaries, style) ==
    [i \in 1..(Len(boundaries) - 1) |->
        LET end == boundaries[i + 1]
            start == IF style = StylePsql THEN boundaries[i] ELSE boundaries[i] + 1
        IN  IF start < Len(line) /\ end <= Len(line) THEN <<start, end>>
            ELSE IF start < Len(line) THEN <<start, Len(line)>>
            ELSE <<>>]

ParseOK(t) == [err |-> "", td |-> t]

ParseFail(msg) == [err |-> msg, td |-> NilTable]

\* the non-separator lines, in order
RECURSIVE DataLinesOf(_)
DataLinesOf(lines) ==
    IF Len(lines) = 0 THEN <<>>
    ELSE (IF isSeparatorLine(lines[1]) THEN <<>> ELSE <<lines[1]>>) \o DataLinesOf(Tail(lines))

parsePipeBased(lines, style) ==
    LET colBoundaries == findColumnBoundaries(lines, style)
    IN  IF Len(colBoundaries) < 2
        THEN ParseFail("invalid table: cannot detect column boundaries")
        ELSE LET dls == DataLinesOf(lines)
                 headers == IF Len(dls) = 0 THEN <<>>
                            ELSE parseDataRow(dls[1], colBoundaries, style)
                 rows == [r \in 1..(Len(dls) - 1) |->
                            LET cells == parseDataRow(dls[r + 1], colBoundaries, style)
                            IN  [i \in 1..Len(cells) |-> NewValue(cells[i])]]
             IN  IF Len(headers) = 0 THEN ParseOK(NewTableData(<<>>, <<>>))
                 ELSE ParseOK(NewTableData(headers, rows))

\* the [start, end) spans of the runs of '=' in the separator line
findRSTSimpleColumns(sepLine) ==
    LET starts == {i \in 1..Len(sepLine) :
                      Ch(sepLine, i) = "=" /\ (i = 1 \/ Ch(sepLine, i - 1) # "=")}
        EndOf(st) == CHOOSE e \in st..Len(sepLine) :
                        /\ \A j \in st..e : Ch(sepLine, j) = "="
                        /\ (e = Len(sepLine) \/ Ch(sepLine, e + 1) # "=")
        ordered == SortedSeq(starts)
    IN  [k \in 1..Len(ordered) |-> <<ordered[k] - 1, EndOf(ordered[k])>>]

parseRSTSimpleRow(line, colBoundaries) ==
    [k \in 1..Len(colBoundaries) |->
        LET start == colBoundaries[k][1]
            end == colBoundaries[k][2]
        IN  IF start < Len(line)
            THEN TrimSpace(Slice(line, start, IF end > Len(line) THEN Len(line) ELSE end))
            ELSE ""]

\* the slice expressions parseRSTSimpleRow evaluates, span by span
parseRSTSimpleRowSlices(line, colBoundaries) ==
    [k \in 1..Len(colBoundaries) |->
        LET start == colBoundaries[k][1]
            end == colBoundaries[k][2]
        IN  IF start < Len(line)
            THEN <<start, IF end > Len(line) THEN Len(line) ELSE end>>
            ELSE <<>>]

\* mutant of parseRSTSimple: every separator line counts, not only the
\* lines of '='
parseRSTSimpleAnySeparator(lines) ==
    LET separatorIndices == SortedSeq({i \in 1..Len(lines) :
                                isSeparatorLine(lines[i]) \/ IsEqualsLine(lines[i])})
    IN  IF Len(separatorIndices) < 2
        THEN ParseFail("invalid RST simple table: need at least 2 separator lines")
        ELSE LET colBoundaries == findRSTSimpleColumns(lines[separatorIndices[1]])
             IN  IF Len(colBoundaries) = 0
                 THEN ParseFail("invalid RST simple table: cannot detect columns")
                 ELSE LET headers ==
                              IF separatorIndices[1] + 1 < separatorIndices[2]
                              THEN parseRSTSimpleRow(lines[separatorIndices[1] + 1], colBoundaries)
                              ELSE <<>>
                          startRow == separatorIndices[2] + 1
                          endRow == IF Len(separatorIndices) > 2
                                    THEN separatorIndices[Len(separatorIndices)] - 1
                                    ELSE Len(lines)
                          rows == [r \in 1..(endRow - startRow + 1) |->
                                     LET cells == parseRSTSimpleRow(lines[startRow + r - 1],
                                                                    colBoundaries)
                                     IN  [i \in 1..Len(cells) |-> NewValue(cells[i])]]
                      IN  ParseOK(NewTableData(headers, rows))

parseRSTSimple(lines) ==
    LET separatorIndices == SortedSeq({i \in 1..Len(lines) : IsEqualsLine(lines[i])})
    IN  IF Len(separatorIndices) < 2
        THEN ParseFail("invalid RST simple table: need at least 2 separator lines")
        ELSE LET colBoundaries == findRSTSimpleColumns(lines[separatorIndices[1]])
             IN  IF Len(colBoundaries) = 0
                 THEN ParseFail("invalid RST simple table: cannot detect columns")
                 ELSE LET headers ==
                              IF separatorIndices[1] + 1 < separatorIndices[2]
                              THEN parseRSTSimpleRow(lines[separatorIndices[1] + 1], colBoundaries)
                              ELSE <<>>
                          startRow == separatorIndices[2] + 1
                          endRow == IF Len(separatorIndices) > 2
                                    THEN separatorIndices[Len(separatorIndices)] - 1
                                    ELSE Len(lines)
                          rows == [r \in 1..(endRow - startRow + 1) |->
                                     LET cells == parseRSTSimpleRow(lines[startRow + r - 1],
                                                                    colBoundaries)
                                     IN  [i \in 1..Len(cells) |-> NewValue(cells[i])]]
                      IN  ParseOK(NewTableData(headers, rows))

\* Parse: the result, and the DetectedStyle the parser is left with
Parse(p, in) ==
    LET lines == ReadLines(in)
    IN  IF Len(lines) = 0
        THEN [res |-> ParseOK(NewTableData(<<>>, <<>>)), parser |-> p]
        ELSE LET style == detectStyle(lines)
             IN  [res |-> IF style = StyleRSTSimple THEN parseRSTSimple(lines)
                          ELSE parsePipeBased(lines, style),
                  parser |-> [p EXCEPT !.DetectedStyle = style]]

(***************************************************************************)
(* ASCIISerializer (the box serializer, registry.go 839-975) and           *)
(* ASCIIParser (the box parser).                                           *)
(***************************************************************************)
asciiValueToString(v) ==
    CASE v.Type = TypeNull -> ""
      [] v.Type = TypeBoolean ->
            IF v.Parsed.tag = "bool" THEN (IF v.Parsed.b THEN "true" ELSE "false") ELSE v.Raw
      [] v.Type = TypeNumber -> v.Raw
      [] v.Type = TypeString -> IF v.Parsed.tag = "string" THEN v.Parsed.s ELSE v.Raw
      [] OTHER -> v.Raw

\* Serialize, the column widths: the longest of the header and the cells
ASCIIWidths(data) ==
    [i \in 1..Len(data.Headers) |->
        MaxOf({Len(data.Headers[i])} \cup
              {Len(asciiValueToString(data.Rows[r][i])) :
                  r \in {r \in 1..Len(data.Rows) : i <= Len(data.Rows[r])}})]

\* Serialize, the cells of a data row
ASCIICells(row, headers) ==
    [i \in 1..Len(headers) |-> IF i <= Len(row) THEN asciiValueToString(row[i]) ELSE ""]

buildSeparator(ws) == "+" \o Concat([i \in 1..Len(ws) |-> Repeat("-", ws[i] + 2) \o "+"])

\* mutant of buildDataRow: the row has no bar before its first cell
buildDataRowNoLeadingBar(cells, ws) ==
    Concat([i \in 1..Len(cells) |-> " " \o cells[i] \o Pad(cells, ws, i) \o " |"])

buildDataRow(cells, ws) ==
    "|" \o Concat([i \in 1..Len(cells) |-> " " \o cells[i] \o Pad(cells, ws, i) \o " |"])

\* ASCIISerializer.Serialize: what it returns and what it writes
ASCIISerialize(data) ==
    IF data = NilTable THEN [ret |-> "error", msg |-> "TableData is nil", out |-> ""]
    ELSE IF Validate(data) # "" THEN [ret |-> "error", msg |-> "invalid TableData", out |-> ""]
    ELSE IF Len(data.Headers) = 0 THEN [ret |-> "nil", msg |-> "", out |-> ""]
    ELSE LET ws == ASCIIWidths(data)
         IN  IF \/ PadPanics(data.Headers, ws)
                \/ \E r \in 1..Len(data.Rows) : PadPanics(ASCIICells(data.Rows[r], data.Headers), ws)
             THEN [ret |-> "panic", msg |-> "strings: negative Repeat count", out |-> ""]
             ELSE [ret |-> "nil", msg |-> "",
                   out |-> buildSeparator(ws) \o "\n"
                           \o buildDataRow(data.Headers, ws) \o "\n"
                           \o buildSeparator(ws) \o "\n"
                           \o Concat([r \in 1..Len(data.Rows) |->
                                  buildDataRow(ASCIICells(data.Rows[r], data.Headers), ws) \o "\n"])
                           \o buildSeparator(ws) \o "\n"]

\* ASCIIParser.isSeparatorLine
ASCIIisSeparatorLine(line) ==
    /\ \A i \in 1..Len(line) : Ch(line, i) \in {"+", "-", " ", "\t"}
    /\ Contains(line, "-")

\* ASCIIParser.findColumnBoundaries: the 0-based offsets of '|' in the first
\* line that is no separator and has a '|'; nil is the empty sequence
ASCIIfindColumnBoundaries(lines) ==
    LET cand == {i \in 1..Len(lines) : ~ASCIIisSeparatorLine(lines[i]) /\ Contains(lines[i], "|")}
    IN  IF cand = {} THEN <<>>
        ELSE OffsetsOf(lines[CHOOSE i \in cand : \A j \in cand : i <= j], "|")

\* ASCIIParser.parseDataRow
ASCIIparseDataRow(line, boundaries) ==
    [i \in 1..(Len(boundaries) - 1) |->
        LET start == boundaries[i] + 1
            end == boundaries[i + 1]
        IN  IF start < Len(line) /\ end <= Len(line)
            THEN TrimSpace(Slice(line, start, end))
            ELSE IF start < Len(line)
            THEN TrimSpace(Slice(line, start, Len(line)))
            ELSE ""]

\* the lines that are no separator, in order
RECURSIVE ASCIIDataLinesOf(_)
ASCIIDataLinesOf(lines) ==
    IF Len(lines) = 0 THEN <<>>
    ELSE (IF ASCIIisSeparatorLine(lines[1]) THEN <<>> ELSE <<lines[1]>>)
         \o ASCIIDataLinesOf(Tail(lines))

\* ASCIIParser.Parse
ASCIIParse(in) ==
    LET lines == ReadLines(in)
    IN  IF Len(lines) = 0 THEN ParseOK(NewTableData(<<>>, <<>>))
        ELSE LET colBoundaries == ASCIIfindColumnBoundaries(lines)
             IN  IF Len(colBoundaries) < 2
                 THEN ParseFail("invalid ASCII table: cannot detect column boundaries")
                 ELSE LET dls == ASCIIDataLinesOf(lines)
                          headers == IF Len(dls) = 0 THEN <<>>
                                     ELSE ASCIIparseDataRow(dls[1], colBoundaries)
                          rows == [r \in 1..(Len(dls) - 1) |->
                                     LET cells == ASCIIparseDataRow(dls[r + 1], colBoundaries)
                                     IN  [i \in 1..Len(cells) |-> NewValue(cells[i])]]
                      IN  IF Len(headers) = 0 THEN ParseOK(NewTableData(<<>>, <<>>))
                          ELSE ParseOK(NewTableData(headers, rows))

(***************************************************************************)
(* Registry (internal/registry/registry.go).  Registry.formats is the set  *)
(* of its FormatInfo values, at most one for a Name; a parser or a         *)
(* serializer is named by a string, the nil interface value by NilImpl.    *)
(***************************************************************************)
NilImpl == "nil"

NilInfo == [nil |-> TRUE]

NewRegistry == {}

\* r.formats[name] exists
Exists(r, name) == \E f \in r : f.Name = name

\* r.formats[name], for a name that exists
InfoOf(r, name) == CHOOSE f \in r : f.Name = name

\* mutant of Register: a registered name is registered again, the new
\* FormatInfo replacing the old one
RegisterOverwrites(r, name, p, s) ==
    IF name = "" THEN [err |-> "format name cannot be empty", reg |-> r]
    ELSE LET n == ToLower(name)
         IN  [err |-> "",
              reg |-> {f \in r : f.Name # n} \cup {[Name |-> n, Parser |-> p, Serializer |-> s]}]

\* Register: the error returned ("" is nil) and the formats afterwards
Register(r, name, p, s) ==
    IF name = "" THEN [err |-> "format name cannot be empty", reg |-> r]
    ELSE LET n == ToLower(name)
         IN  IF Exists(r, n)
             THEN [err |-> "format \"" \o n \o "\" is already registered", reg |-> r]
             ELSE [err |-> "",
                   reg |-> r \cup {[Name |-> n, Parser |-> p, Serializer |-> s]}]

GetParser(r, name) ==
    LET n == ToLower(name)
    IN  IF ~Exists(r, n) THEN [err |-> "unsupported format \"" \o n \o "\"", out |-> NilImpl]
        ELSE IF InfoOf(r, n).Parser = NilImpl
        THEN [err |-> "no parser registered for format \"" \o n \o "\"", out |-> NilImpl]
        ELSE [err |-> "", out |-> InfoOf(r, n).Parser]

GetSerializer(r, name) ==
    LET n == ToLower(name)
    IN  IF ~Exists(r, n) THEN [err |-> "unsupported format \"" \o n \o "\"", out |-> NilImpl]
        ELSE IF InfoOf(r, n).Serializer = NilImpl
        THEN [err |-> "no serializer registered for format \"" \o n \o "\"", out |-> NilImpl]
        ELSE [err |-> "", out |-> InfoOf(r, n).Serializer]

GetFormat(r, name) ==
    LET n == ToLower(name)
    IN  IF ~Exists(r, n) THEN [err |-> "unsupported format \"" \o n \o "\"", out |-> NilInfo]
        ELSE [err |-> "", out |-> InfoOf(r, n)]

(***************************************************************************)
(* Inputs of the calls.                                                    *)
(***************************************************************************)
RawAlphabet == {"0", "1", "3", ".", "-", "e", " ", "n", "o", "N", "y"}

RawWords ==
    {"true", "TRUE", "True", "false", "FALSE", "yes", "Yes", "YES", "yess", "truth",
     " true ", "\tno", "30", " 30 ", "3.14", "-2.5", "1e999", "1e-5", "NaN", "+Inf",
     "abc", "Alice", "New York", "a|b"}

RawPool == StringsUpTo(RawAlphabet, MaxRawLen) \cup RawWords

FloatPool ==
    {Finite(FALSE, 0, 0), Finite(FALSE, 30, 0), Finite(TRUE, 25, -1), Finite(FALSE, 5, -2),
     Finite(FALSE, 1, 3), NaN, Inf(FALSE), Inf(TRUE)}

\* the header lists of the tables handed to Serialize
HeaderLists == {<<>>, <<"a">>, <<"name">>, <<"a", "b">>}

\* the cells of the tables handed to Serialize
CellValues == {NewNullValue, NewStringValue("x"), NewBooleanValue(FALSE)}

PoolTables ==
    UNION {{NewTableData(h, rows) :
                rows \in SeqsUpTo(SeqsOfLen(CellValues, Len(h)), MaxRows)} :
           h \in HeaderLists}

\* the table of the rst-simple rendering scenario
ScenarioTable == NewTableData(<<"a", "b">>, <<<<NewValue("x"), NewValue("y")>>>>)

\* tables whose cells hold the characters of the borders and dividers, or a
\* space, next to a letter or digit in the same row
SafeEdgeTables ==
    {NewTableData(<<"a", "b">>,
                  <<<<NewStringValue("-"), NewStringValue("x")>>,
                    <<NewStringValue("New York"), NewStringValue("=")>>>>),
     NewTableData(<<"a", "b">>,
                  <<<<NewNumberValue(Finite(TRUE, 25, -1)), NewStringValue("a+b")>>,
                    <<NewNullValue, NewStringValue("x=y")>>>>)}

Tables == PoolTables \cup {ScenarioTable} \cup SafeEdgeTables

\* a row of n cells that differ by position, for rows of any length
PositionalRow(n) == [j \in 1..n |-> NewStringValue("c" \o IntToDigits(j))]

RaggedRows == {PositionalRow(n) : n \in 0..(MaxCols + 1)}

PositionalHeaders(n) == [j \in 1..n |-> "h" \o IntToDigits(j)]

\* every style a serializer can hold: the six styles, the empty style of a
\* zero UnifiedASCIISerializer and an unrecognised one
SerializerStyles == Styles \cup {"", "fancy"}

\* the six samples of TestUnifiedASCIIParser_AllFormats, by style
SampleInput(style) ==
    CASE style = StylePsql ->
            "Name    | Age | City\n"
            \o "--------+-----+----------\n"
            \o "Alice   | 30  | New York\n"
            \o "Bob     | 25  | London"
      [] style = StyleMarkdown ->
            "| Name  | Age | City     |\n"
            \o "|-------|-----|----------|\n"
            \o "| Alice | 30  | New York |\n"
            \o "| Bob   | 25  | London   |"
      [] style = StyleOrgMode ->
            "| Name  | Age | City     |\n"
            \o "|-------+-----+----------|\n"
            \o "| Alice | 30  | New York |\n"
            \o "| Bob   | 25  | London   |"
      [] style = StyleBox ->
            "+-------+-----+----------+\n"
            \o "| Name  | Age | City     |\n"
            \o "+-------+-----+----------+\n"
            \o "| Alice | 30  | New York |\n"
            \o "| Bob   | 25  | London   |\n"
            \o "+-------+-----+----------+"
      [] style = StyleRSTGrid ->
            "+-------+-----+----------+\n"
            \o "| Name  | Age | City     |\n"
            \o "+=======+=====+==========+\n"
            \o "| Alice | 30  | New York |\n"
            \o "| Bob   | 25  | London   |\n"
            \o "+-------+-----+----------+"
      [] style = StyleRSTSimple ->
            "=====  ===  ========\n"
            \o "Name   Age  City\n"
            \o "=====  ===  ========\n"
            \o "Alice  30   New York\n"
            \o "Bob    25   London\n"
            \o "=====  ===  ========"

\* the six samples of the README (ASCII section), by style
ReadmeSample(style) ==
    CASE style = StyleBox ->
            "+-------+-----+--------+\n"
            \o "| name  | age | active |\n"
            \o "+-------+-----+--------+\n"
            \o "| Alice | 30  | true   |\n"
            \o "| Bob   | 25  | false  |\n"
            \o "+-------+-----+--------+\n"
      [] style = StylePsql ->
            "name  | age | active\n"
            \o "------+-----+--------\n"
            \o "Alice | 30  | true\n"
            \o "Bob   | 25  | false\n"
      [] style = StyleMarkdown ->
            "| name  | age | active |\n"
            \o "|-------|-----|--------|\n"
            \o "| Alice | 30  | true   |\n"
            \o "| Bob   | 25  | false  |\n"
      [] style = StyleOrgMode ->
            "| name  | age | active |\n"
            \o "|-------+-----+--------|\n"
            \o "| Alice | 30  | true   |\n"
            \o "| Bob   | 25  | false  |\n"
      [] style = StyleRSTGrid ->
            "+-------+-----+--------+\n"
            \o "| name  | age | active |\n"
            \o "+=======+=====+========+\n"
            \o "| Alice | 30  | true   |\n"
            \o "| Bob   | 25  | false  |\n"
            \o "+-------+-----+--------+\n"
      [] style = StyleRSTSimple ->
            "=====  ===  ======\n"
            \o "name   age  active\n"
            \o "=====  ===  ======\n"
            \o "Alice  30   true\n"
            \o "Bob    25   false\n"
            \o "=====  ===  ======\n"

Samples == {SampleInput(s) : s \in Styles} \cup {ReadmeSample(s) : s \in Styles}

\* physical lines the generated inputs are made of
LinePool ==
    {"", "a", "a | b", "| a |", "---", "-+-", "+---+", "|---|", "|-+-|",
     "===", "+=+", "|-+-"}

\* every text of at most MaxLines lines of LinePool, each line ended by a line feed
Texts == {Concat([i \in 1..Len(ls) |-> ls[i] \o "\n"]) : ls \in SeqsUpTo(LinePool, MaxLines)}

\* texts without any non-blank line
BlankTexts == {"", " ", " \n\t\n", "\r\n"}

\* the input of TestUnifiedASCIIParser_WithRowSeparators
RowSeparatorsSample ==
    "+-------+-----+\n"
    \o "| Name  | Age |\n"
    \o "+-------+-----+\n"
    \o "| Alice | 30  |\n"
    \o "+-------+-----+\n"
    \o "| Bob   | 25  |\n"
    \o "+-------+-----+"

\* tables with a divider line between their two data rows: the sample of the
\* test, and its like in the markdown and rst-simple styles
DividerInputs ==
    {RowSeparatorsSample,
     "| h |\n|---|\n| x |\n|---|\n| y |\n",
     "===\nh\n===\nx\n===\ny\n===\n"}

InputPool == Samples \cup Texts \cup BlankTexts \cup DividerInputs

\* generateASCIISafeTableData: the headers and the cells of its tables
ASCIISafeHeaders == {<<"a">>, <<"Ab_1", "c">>}

ASCIISafeCells ==
    {NewStringValue(""), NewStringValue("-"), NewNumberValue(Finite(TRUE, 25, -1)),
     NewNullValue}

ASCIISafeTables ==
    UNION {{NewTableData(h, rows) :
                rows \in SeqsUpTo(SeqsOfLen(ASCIISafeCells, Len(h)), MaxRows)} :
           h \in ASCIISafeHeaders}

\* the input of TestASCIIParser_PsqlFormat
ASCIIPsqlSample ==
    "cspProductName |  dbProduct  | financeCode\n"
    \o "---------------+-------------+-------------\n"
    \o "ae             | ae          | au\n"
    \o "camsi          | amsi        | am\n"
    \o "dbi            | bi          | bs"

\* the input of TestASCIIParser_TraditionalBoxFormat
ASCIIBoxSample ==
    "+-------+-----+--------+\n"
    \o "| name  | age | active |\n"
    \o "+-------+-----+--------+\n"
    \o "| Alice | 30  | true   |\n"
    \o "| Bob   | 25  | false  |\n"
    \o "+-------+-----+--------+"

\* psql-aligned inputs: no bar before the first or after the last column
ASCIIPsqlInputs ==
    {ASCIIPsqlSample, SampleInput(StylePsql), ReadmeSample(StylePsql), "a | b\n--+--\nx | y\n"}

\* the inputs whose column boundaries a single line is then decoded with
DecodeInputs == Samples \cup DividerInputs

\* the lines decoded with them: empty, shorter and longer than a table row
DecodeLines == {"", "|", "| a", "x | y | z", "Alice  30   true  and more"}

\* the names handed to Register and to the lookups
FormatNames == {"", "csv", "CSV", "md"}

\* the parser and the serializer handed to Register
Implementations == {<<"p1", "s1">>, <<"p2", "s2">>, <<NilImpl, NilImpl>>}

\* the inputs parsed one after the other on one parser instance: no line, and
\* a small table of the psql, box, markdown and rst-simple styles
SessionInputs ==
    {"", "a | b\n--+--\nx | y\n", "+---+\n| a |\n+---+\n", "| a |\n|---|\n", "===\na\n===\n"}

\* the texts ASCIIParser.Parse reads
ASCIIInputs == ASCIIPsqlInputs \cup {ASCIIBoxSample} \cup BlankTexts \cup SessionInputs

(***************************************************************************)
(* The state machine: one call of a constructor, or one conversion         *)
(* (a table is built, serialized and parsed back; or a text is parsed).    *)
(***************************************************************************)
NoCall == [fn |-> "none"]

NoValue == [none |-> TRUE]

NoResult == [none |-> TRUE]

NewUnifiedASCIIParser == [DetectedStyle |-> ""]

NoLookup == [fn |-> "none"]

Init ==
    /\ pc = "idle"
    /\ arg = NoCall
    /\ val = NoValue
    /\ td = NilTable
    /\ ser = NewUnifiedASCIISerializer("")
    /\ widths = <<>>
    /\ output = ""
    /\ serRet = "none"
    /\ input = ""
    /\ parser = NewUnifiedASCIIParser
    /\ parsed = NoResult
    /\ calls = <<>>
    /\ registry = NewRegistry
    /\ regLog = <<>>
    /\ lookup = NoLookup

NewValueCall ==
    /\ pc = "idle"
    /\ \E raw \in RawPool :
          /\ arg' = [fn |-> "NewValue", raw |-> raw]
          /\ val' = NewValue(raw)
    /\ pc' = "value"
    /\ UNCHANGED <<td, ser, widths, output, serRet, input, parser, parsed,
                 calls, registry, regLog, lookup>>

NewStringValueCall ==
    /\ pc = "idle"
    /\ \E s \in RawPool :
          /\ arg' = [fn |-> "NewStringValue", raw |-> s]
          /\ val' = NewStringValue(s)
    /\ pc' = "value"
    /\ UNCHANGED <<td, ser, widths, output, serRet, input, parser, parsed,
                 calls, registry, regLog, lookup>>

NewNumberValueCall ==
    /\ pc = "idle"
    /\ \E n \in FloatPool :
          /\ arg' = [fn |-> "NewNumberValue", n |-> n]
          /\ val' = NewNumberValue(n)
    /\ pc' = "value"
    /\ UNCHANGED <<td, ser, widths, output, serRet, input, parser, parsed,
                 calls, registry, regLog, lookup>>

NewBooleanValueCall ==
    /\ pc = "idle"
    /\ \E b \in BOOLEAN :
          /\ arg' = [fn |-> "NewBooleanValue", b |-> b]
          /\ val' = NewBooleanValue(b)
    /\ pc' = "value"
    /\ UNCHANGED <<td, ser, widths, output, serRet, input, parser, parsed,
                 calls, registry, regLog, lookup>>

NewNullValueCall ==
    /\ pc = "idle"
    /\ arg' = [fn |-> "NewNullValue"]
    /\ val' = NewNullValue
    /\ pc' = "value"
    /\ UNCHANGED <<td, ser, widths, output, serRet, input, parser, parsed,
                 calls, registry, regLog, lookup>>

\* NewTableData on rows of any length, then Validate on the result
NewTableDataCall ==
    /\ pc = "idle"
    /\ \E n \in 0..MaxCols, rows \in SeqsUpTo(RaggedRows, MaxRows) :
          /\ arg' = [fn |-> "NewTableData", headers |-> PositionalHeaders(n), rows |-> rows]
          /\ td' = NewTableData(PositionalHeaders(n), rows)
    /\ pc' = "normalized"
    /\ UNCHANGED <<val, ser, widths, output, serRet, input, parser, parsed,
                 calls, registry, regLog, lookup>>

ValidateCall ==
    /\ pc = "normalized"
    /\ val' = [err |-> Validate(td)]
    /\ pc' = "validated"
    /\ UNCHANGED <<arg, td, ser, widths, output, serRet, input, parser, parsed,
                 calls, registry, regLog, lookup>>

\* a format adapter's parse step hands over its table
BuildTable ==
    /\ pc = "idle"
    /\ \E t \in Tables : td' = t
    /\ pc' = "table"
    /\ UNCHANGED <<arg, val, ser, widths, output, serRet, input, parser, parsed,
                 calls, registry, regLog, lookup>>

SerializeCall ==
    /\ pc = "table"
    /\ \E style \in SerializerStyles, rowSep \in BOOLEAN :
          LET s == [Style |-> style, RowSeparators |-> rowSep]
              r == Serialize(s, td)
          IN  /\ ser' = s
              /\ serRet' = r.ret
              /\ output' = r.out
              /\ widths' = IF Validate(td) = "" /\ Len(td.Headers) > 0
                           THEN calculateWidths(td) ELSE <<>>
    /\ pc' = "serialized"
    /\ UNCHANGED <<arg, val, td, input, parser, parsed, calls, registry, regLog, lookup>>

\* Parse reads back what Serialize wrote
ParseOutput ==
    /\ pc = "serialized"
    /\ serRet = "nil"
    /\ LET r == Parse(parser, output)
       IN  /\ input' = output
           /\ parsed' = r.res
           /\ parser' = r.parser
    /\ pc' = "reparsed"
    /\ UNCHANGED <<arg, val, td, ser, widths, output, serRet, calls, registry, regLog, lookup>>

\* Parse reads a text
ParseText ==
    /\ pc = "idle"
    /\ \E in \in InputPool :
          LET r == Parse(parser, in)
          IN  /\ input' = in
              /\ parsed' = r.res
              /\ parser' = r.parser
    /\ pc' = "parsed"
    /\ UNCHANGED <<arg, val, td, ser, widths, output, serRet, calls, registry, regLog, lookup>>

\* generateASCIISafeTableData hands over its table
BuildASCIISafeTable ==
    /\ pc = "idle"
    /\ \E t \in ASCIISafeTables : td' = t
    /\ pc' = "asciitable"
    /\ UNCHANGED <<arg, val, ser, widths, output, serRet, input, parser, parsed,
                 calls, registry, regLog, lookup>>

\* ASCIISerializer.Serialize
ASCIISerializeCall ==
    /\ pc \in {"table", "asciitable"}
    /\ LET r == ASCIISerialize(td)
       IN  /\ serRet' = r.ret
           /\ output' = r.out
           /\ widths' = IF Validate(td) = "" /\ Len(td.Headers) > 0
                        THEN ASCIIWidths(td) ELSE <<>>
    /\ pc' = "asciiserialized"
    /\ UNCHANGED <<arg, val, td, ser, input, parser, parsed, calls, registry, regLog, lookup>>

\* ASCIIParser.Parse reads back what ASCIISerializer.Serialize wrote
ASCIIParseOutput ==
    /\ pc = "asciiserialized"
    /\ serRet = "nil"
    /\ input' = output
    /\ parsed' = ASCIIParse(output)
    /\ pc' = "asciireparsed"
    /\ UNCHANGED <<arg, val, td, ser, widths, output, serRet, parser,
                 calls, registry, regLog, lookup>>

\* ASCIIParser.Parse reads a text
ASCIIParseText ==
    /\ pc = "idle"
    /\ \E in \in ASCIIInputs :
          /\ input' = in
          /\ parsed' = ASCIIParse(in)
    /\ pc' = "asciiparsed"
    /\ UNCHANGED <<arg, val, td, ser, widths, output, serRet, parser,
                 calls, registry, regLog, lookup>>

\* the row decoder of the detected style reads one line with the column
\* boundaries found in the parsed input
DecodeCall ==
    /\ pc = "parsed"
    /\ input \in DecodeInputs
    /\ parsed.err = ""
    /\ \E line \in DecodeLines :
          LET lines == ReadLines(input)
              style == parser.DetectedStyle
          IN  IF style = StyleRSTSimple
              THEN LET cb == findRSTSimpleColumns(
                                lines[CHOOSE i \in 1..Len(lines) :
                                        /\ IsEqualsLine(lines[i])
                                        /\ \A j \in 1..(i - 1) : ~IsEqualsLine(lines[j])])
                   IN  arg' = [fn |-> "parseRSTSimpleRow", line |-> line, columns |-> Len(cb),
                               slices |-> parseRSTSimpleRowSlices(line, cb),
                               cells |-> parseRSTSimpleRow(line, cb)]
              ELSE LET cb == findColumnBoundaries(lines, style)
                   IN  arg' = [fn |-> "parseDataRow", line |-> line, columns |-> Len(cb) - 1,
                               slices |-> parseDataRowSlices(line, cb, style),
                               cells |-> parseDataRow(line, cb, style)]
    /\ pc' = "decoded"
    /\ UNCHANGED <<val, td, ser, widths, output, serRet, input, parser, parsed,
                 calls, registry, regLog, lookup>>

\* Registry.Register (the lookup recorded before it is forgotten)
RegisterCall ==
    /\ pc \in {"idle", "registry"}
    /\ Len(regLog) < MaxRegisters
    /\ \E name \in FormatNames, impl \in Implementations :
          LET r == Register(registry, name, impl[1], impl[2])
          IN  /\ registry' = r.reg
              /\ regLog' = Append(regLog, [name |-> name, p |-> impl[1], s |-> impl[2],
                                           err |-> r.err, before |-> registry,
                                           after |-> r.reg])
    /\ lookup' = NoLookup
    /\ pc' = "registry"
    /\ UNCHANGED <<arg, val, td, ser, widths, output, serRet, input, parser, parsed, calls>>

\* Registry.GetParser
GetParserCall ==
    /\ pc \in {"idle", "registry"}
    /\ \E name \in FormatNames :
          LET r == GetParser(registry, name)
          IN  lookup' = [fn |-> "GetParser", name |-> name, err |-> r.err, out |-> r.out]
    /\ pc' = "registry"
    /\ UNCHANGED <<arg, val, td, ser, widths, output, serRet, input, parser, parsed,
                 calls, registry, regLog>>

\* Registry.GetSerializer
GetSerializerCall ==
    /\ pc \in {"idle", "registry"}
    /\ \E name \in FormatNames :
          LET r == GetSerializer(registry, name)
          IN  lookup' = [fn |-> "GetSerializer", name |-> name, err |-> r.err, out |-> r.out]
    /\ pc' = "registry"
    /\ UNCHANGED <<arg, val, td, ser, widths, output, serRet, input, parser, parsed,
                 calls, registry, regLog>>

\* Registry.GetFormat
GetFormatCall ==
    /\ pc \in {"idle", "registry"}
    /\ \E name \in FormatNames :
          LET r == GetFormat(registry, name)
          IN  lookup' = [fn |-> "GetFormat", name |-> name, err |-> r.err, out |-> r.out]
    /\ pc' = "registry"
    /\ UNCHANGED <<arg, val, td, ser, widths, output, serRet, input, parser, parsed,
                 calls, registry, regLog>>

\* Parse is called again on the same parser instance (the instance registered
\* for a format serves every conversion of the process)
SessionParse ==
    /\ pc \in {"idle", "session"}
    /\ Len(calls) < MaxCalls
    /\ \E in \in SessionInputs :
          LET r == Parse(parser, in)
          IN  /\ input' = in
              /\ parsed' = r.res
              /\ parser' = r.parser
              /\ calls' = Append(calls, [input |-> in, res |-> r.res,
                                         before |-> parser, after |-> r.parser])
    /\ pc' = "session"
    /\ UNCHANGED <<arg, val, td, ser, widths, output, serRet, registry, regLog, lookup>>

Next ==
    \/ NewValueCall
    \/ NewStringValueCall
    \/ NewNumberValueCall
    \/ NewBooleanValueCall
    \/ NewNullValueCall
    \/ NewTableDataCall
    \/ ValidateCall
    \/ BuildTable
    \/ SerializeCall
    \/ ParseOutput
    \/ ParseText
    \/ DecodeCall
    \/ SessionParse
    \/ BuildASCIISafeTable
    \/ ASCIISerializeCall
    \/ ASCIIParseOutput
    \/ ASCIIParseText
    \/ RegisterCall
    \/ GetParserCall
    \/ GetSerializerCall
    \/ GetFormatCall

Spec == Init /\ [][Next]_vars

(***************************************************************************)
(* Properties.                                                             *)
(***************************************************************************)
\* the text a cell is rendered as (section 4.4 of the specification)
RenderedText(v) ==
    CASE v.Type = TypeNull -> ""
      [] v.Type = TypeBoolean -> IF v.Parsed.b THEN "true" ELSE "false"
      [] OTHER -> v.Raw

\* C1: for every valid table (here: with at least one column) and each of the
\* six styles, Parse of what Serialize wrote succeeds and returns the trimmed
\* headers, the same number of rows and, cell by cell, a Raw equal to the
\* trimmed rendered text.
C1_RoundTrip ==
    (pc = "reparsed" /\ ser.Style \in Styles /\ Len(td.Headers) >= 1) =>
        /\ parsed.err = ""
        /\ parsed.td # NilTable
        /\ parsed.td.Headers = [i \in 1..Len(td.Headers) |-> TrimSpace(td.Headers[i])]
        /\ Len(parsed.td.Rows) = Len(td.Rows)
        /\ \A r \in 1..Len(td.Rows) :
              /\ Len(parsed.td.Rows[r]) = Len(td.Rows[r])
              /\ \A i \in 1..Len(td.Rows[r]) :
                    parsed.td.Rows[r][i].Raw = TrimSpace(RenderedText(td.Rows[r][i]))

\* C2: NewTableData returns a table whose rows all have len(headers) cells: a
\* short row keeps its cells in order and is padded with Null, a long row is
\* cut to its first len(headers) cells, and Validate returns nil.
C2_RowNormalization ==
    (pc \in {"normalized", "validated"}) =>
        /\ td # NilTable
        /\ td.Headers = arg.headers
        /\ Len(td.Rows) = Len(arg.rows)
        /\ \A r \in 1..Len(arg.rows) :
              /\ Len(td.Rows[r]) = Len(arg.headers)
              /\ \A j \in 1..Len(arg.headers) :
                    td.Rows[r][j] = IF j <= Len(arg.rows[r]) THEN arg.rows[r][j]
                                    ELSE [Type |-> TypeNull, Raw |-> "", Parsed |-> ParsedNil]
        /\ (pc = "validated" => val.err = "")

\* C2 witness: a validated table built from a row shorter and a row longer than the headers
C2_Witness ==
    /\ pc = "validated"
    /\ Len(arg.headers) = 2
    /\ \E r \in 1..Len(arg.rows) : Len(arg.rows[r]) < 2
    /\ \E r \in 1..Len(arg.rows) : Len(arg.rows[r]) > 2
    /\ val.err = ""

\* the type the inference gives when its tests are applied to the text t
InferredType(raw, t) ==
    IF raw = "" THEN TypeNull
    ELSE IF ToLower(t) \in {"true", "yes", "1", "false", "no", "0"} THEN TypeBoolean
    ELSE IF ParseFloat(t).ok THEN TypeNumber
    ELSE TypeString

InferredParsed(raw, t) ==
    IF raw = "" THEN ParsedNil
    ELSE IF ToLower(t) \in {"true", "yes", "1"} THEN ParsedBool(TRUE)
    ELSE IF ToLower(t) \in {"false", "no", "0"} THEN ParsedBool(FALSE)
    ELSE IF ParseFloat(t).ok THEN ParsedFloat(ParseFloat(t).f)
    ELSE ParsedString(raw)

NonBlankLines(text) ==
    LET ls == ScanLines(text)
        keep == SortedSeq({i \in 1..Len(ls) : \E k \in 1..Len(ls[i]) : ~IsSpace(Ch(ls[i], k))})
    IN  [n \in 1..Len(keep) |-> ls[keep[n]]]

\* C4: each of the six sample tables (of the parser's test and of the README)
\* is parsed without error, detected as its own style, and gives 3 headers,
\* 2 rows and the first data cell Alice.
C4_Samples ==
    \A s \in Styles :
        (pc = "parsed" /\ input \in {SampleInput(s), ReadmeSample(s)}) =>
            /\ parsed.err = ""
            /\ parser.DetectedStyle = s
            /\ Len(parsed.td.Headers) = 3
            /\ parsed.td.Headers \in {<<"Name", "Age", "City">>, <<"name", "age", "active">>}
            /\ Len(parsed.td.Rows) = 2
            /\ parsed.td.Rows[1][1].Raw = "Alice"

\* C4 witness: the org-mode sample has been parsed and detected as org
C4_Witness ==
    /\ pc = "parsed"
    /\ input = SampleInput(StyleOrgMode)
    /\ parser.DetectedStyle = StyleOrgMode
    /\ Len(parsed.td.Rows) = 2

\* the separator lines hold only '-', '+' and spaces, and no other line holds '|'
PlainSeparatorsNoBars(ls) ==
    /\ \A i \in 1..Len(ls) :
          isSeparatorLine(ls[i]) => \A k \in 1..Len(ls[i]) : Ch(ls[i], k) \in {"-", "+", " "}
    /\ \A i \in 1..Len(ls) : ~isSeparatorLine(ls[i]) => ~Contains(ls[i], "|")

BoundaryError == "invalid table: cannot detect column boundaries"

\* C5 as stated: an input whose separator lines are made of '-', '+' and spaces
\* and that has no data line with a '|' gives the boundary error and no table.
C5_BoundaryFallback ==
    (pc \in {"parsed", "reparsed"} /\ PlainSeparatorsNoBars(NonBlankLines(input))) =>
        /\ parsed.err = BoundaryError
        /\ parsed.td = NilTable

\* the first separator line starts with '-' and some separator line holds a '+'
DashFirstWithPlus(ls) ==
    LET seps == {i \in 1..Len(ls) : isSeparatorLine(ls[i])}
    IN  /\ seps # {}
        /\ Ch(TrimSpace(ls[CHOOSE i \in seps : \A j \in seps : i <= j]), 1) = "-"
        /\ \E i \in seps : Contains(ls[i], "+")

\* C5 amended: such an input gives the boundary error and no table, except
\* that an input without a non-blank line gives the empty table, and an input
\* whose first separator line starts with '-' and that has a '+' in a separator
\* line (the psql reading) gives a table.
C5_BoundaryFallbackAmended ==
    (pc \in {"parsed", "reparsed"} /\ PlainSeparatorsNoBars(NonBlankLines(input))) =>
        IF NonBlankLines(input) = <<>> \/ DashFirstWithPlus(NonBlankLines(input))
        THEN parsed.err = "" /\ parsed.td # NilTable
        ELSE parsed.err = BoundaryError /\ parsed.td = NilTable

\* C5 witness: a box border and a data line without bars gave the boundary error
C5_Witness ==
    /\ pc = "parsed"
    /\ NonBlankLines(input) = <<"+---+", "a">>
    /\ parsed.err = BoundaryError
    /\ parsed.td = NilTable

\* C6: an input without a non-blank line parses to the table without headers
\* and rows, with a nil error; Serialize of a table without headers writes
\* nothing and returns nil, in every style.
C6_EmptyInput ==
    /\ (pc = "parsed" /\ \A k \in 1..Len(input) : IsSpace(Ch(input, k))) =>
          parsed = [err |-> "", td |-> [Headers |-> <<>>, Rows |-> <<>>]]
    /\ (pc = "serialized" /\ td # NilTable /\ Len(td.Headers) = 0) =>
          serRet = "nil" /\ output = ""

\* C6 witness: a text of whitespace lines only has been parsed to the empty table
C6_Witness ==
    /\ pc = "parsed"
    /\ input = " \n\t\n"
    /\ parsed.err = ""
    /\ parsed.td.Headers = <<>>
    /\ parsed.td.Rows = <<>>

\* C7 as stated: headers a, b with the row x, y in style rst-simple render as
\* five lines without trailing spaces.
C7_RSTSimpleScenario ==
    (pc = "serialized" /\ td = ScenarioTable /\ ser.Style = StyleRSTSimple) =>
        /\ serRet = "nil"
        /\ output = "===  ===\na    b\n===  ===\nx    y\n===  ===\n"

\* C7 amended: the header row and the data row are padded to the full width of
\* the last column, the two lines end in two spaces.
C7_RSTSimpleScenarioPadded ==
    (pc = "serialized" /\ td = ScenarioTable /\ ser.Style = StyleRSTSimple) =>
        /\ serRet = "nil"
        /\ output = "===  ===\na    b  \n===  ===\nx    y  \n===  ===\n"

\* C7 witness: the scenario table has been rendered in style rst-simple
C7_Witness ==
    /\ pc = "serialized"
    /\ td = ScenarioTable
    /\ ser.Style = StyleRSTSimple
    /\ serRet = "nil"
    /\ Len(output) > 0

\* C8: Serialize of a non-nil table whose rows all have len(headers) cells
\* returns nil (it neither fails nor panics), whatever the style.
C8_RenderNeverFails ==
    (/\ pc = "serialized"
     /\ td # NilTable
     /\ \A r \in 1..Len(td.Rows) : Len(td.Rows[r]) = Len(td.Headers)) =>
        serRet = "nil"

\* C8 witness: a table with a cell longer than its header was rendered by a
\* serializer of an unrecognised style
C8_Witness ==
    /\ pc = "serialized"
    /\ ser.Style = "fancy"
    /\ Len(td.Headers) = 2
    /\ \E r \in 1..Len(td.Rows) : Len(RenderedText(td.Rows[r][1])) > Len(td.Headers[1])
    /\ serRet = "nil"
    /\ output # ""

\* the lines of a rendering that are borders or dividers
DividerLines(out) ==
    LET ls == ScanLines(out)
    IN  {ls[i] : i \in {j \in 1..Len(ls) :
                          /\ \A k \in 1..Len(ls[j]) : Ch(ls[j], k) \in {"+", "-", "=", "|", " "}
                          /\ ContainsAny(ls[j], {"-", "="})}}

\* every '-' and '=' of the line lies in a run of at least 3 of them
RunsAtLeast3(l) ==
    \A i \in 1..Len(l) :
        Ch(l, i) \in {"-", "="} =>
            \E a \in 1..i :
                /\ a + 2 <= Len(l)
                /\ a + 2 >= i
                /\ \A j \in a..(a + 2) : Ch(l, j) = Ch(l, i)

\* C9: the width of column i is the largest of 3, len(headers[i]) and the
\* lengths of the rendered cells of column i; every run of '-' or '=' in a
\* border or divider is at least 3 long.
C9_ColumnWidth ==
    (pc = "serialized" /\ td # NilTable /\ Len(td.Headers) > 0) =>
        /\ Len(widths) = Len(td.Headers)
        /\ \A i \in 1..Len(td.Headers) :
              widths[i] = MaxOf({3, Len(td.Headers[i])}
                                \cup {Len(RenderedText(td.Rows[r][i])) : r \in 1..Len(td.Rows)})
        /\ DividerLines(output) # {}
        /\ \A l \in DividerLines(output) : RunsAtLeast3(l)

\* C9 witness: a column with a one-character header and cells of at most one
\* character got width 3
C9_Witness ==
    /\ pc = "serialized"
    /\ td # NilTable
    /\ Len(td.Headers) > 0
    /\ Len(td.Headers[1]) = 1
    /\ Len(td.Rows) >= 1
    /\ \A r \in 1..Len(td.Rows) : Len(RenderedText(td.Rows[r][1])) <= 1
    /\ widths[1] = 3
    /\ output # ""

\* the cells of the table Parse returned
ParsedCells ==
    IF pc \in {"parsed", "reparsed"} /\ parsed.err = ""
    THEN UNION {{parsed.td.Rows[r][i] : i \in 1..Len(parsed.td.Rows[r])} :
                    r \in 1..Len(parsed.td.Rows)}
    ELSE {}

\* C10 as stated: no Value made by a constructor or placed in a table by Parse
\* has an empty Raw and a Type other than Null.
C10_EmptyRawIsNull ==
    /\ (pc = "value" /\ val.Raw = "") => val.Type = TypeNull
    /\ \A c \in ParsedCells : c.Raw = "" => c.Type = TypeNull

\* C10 amended: this holds of NewValue, NewNumberValue, NewBooleanValue,
\* NewNullValue and of the cells Parse places in a table; NewStringValue("")
\* is a String with an empty Raw.
C10_EmptyRawIsNullButString ==
    /\ (pc = "value" /\ val.Raw = "") =>
          IF arg.fn = "NewStringValue" THEN val.Type = TypeString ELSE val.Type = TypeNull
    /\ \A c \in ParsedCells : c.Raw = "" => c.Type = TypeNull

\* C10 witness: Parse has placed a cell with an empty Raw, a Null, in a table
C10_Witness ==
    /\ pc = "reparsed"
    /\ \E c \in ParsedCells : c.Raw = "" /\ c.Type = TypeNull

\* s contains sub (strings.Contains)
ContainsStr(s, sub) ==
    \E i \in 1..(Len(s) - Len(sub) + 1) : SubSeq(s, i, i + Len(sub) - 1) = sub

\* the lines of the text that hold '=' and white space only
EqualsOnlyLines(text) ==
    LET ls == NonBlankLines(text)
    IN  {i \in 1..Len(ls) :
            /\ \E j \in 1..Len(ls[i]) : Ch(ls[i], j) = "="
            /\ \A j \in 1..Len(ls[i]) : Ch(ls[i], j) = "=" \/ IsSpace(Ch(ls[i], j))}

\* C11: an input classified rst-simple that has fewer than 2 lines of '=' is
\* refused: Parse returns no table and an error whose message contains
\* "need at least 2 separator lines".
C11_SeparatorCountError ==
    (/\ pc = "parsed"
     /\ NonBlankLines(input) # <<>>
     /\ parser.DetectedStyle = StyleRSTSimple
     /\ Cardinality(EqualsOnlyLines(input)) < 2) =>
        /\ parsed.td = NilTable
        /\ ContainsStr(parsed.err, "need at least 2 separator lines")

\* C11 witness: a table of one '=' line, a data line and a dash line is refused
C11_Witness ==
    /\ pc = "parsed"
    /\ input = "===\na\n---\n"
    /\ parser.DetectedStyle = StyleRSTSimple
    /\ parsed.err = "invalid RST simple table: need at least 2 separator lines"

\* C12: two Parse calls on the same input give the same result (table or
\* error) and leave the same DetectedStyle, also on one parser instance with
\* other inputs parsed in between.
C12_Determinism ==
    \A i, j \in 1..Len(calls) :
        calls[i].input = calls[j].input =>
            /\ calls[i].res = calls[j].res
            /\ calls[i].after.DetectedStyle = calls[j].after.DetectedStyle

\* C13: a Parse call leaves every field of its parser instance as it was
\* (Serialize only reads s.Style and s.RowSeparators, registry.go 470-500).
C13_NoSharedMutableState ==
    \A k \in 1..Len(calls) : calls[k].after = calls[k].before

\* C14: for a table with at least one header, ASCIIParser.Parse of what
\* ASCIISerializer.Serialize wrote returns the same headers, the same number
\* of rows, in every cell a Raw equal to the trimmed rendered text of the
\* original cell, and a table that passes Validate.
C14_LegacyRoundTrip ==
    (pc = "asciireparsed" /\ Len(td.Headers) >= 1) =>
        /\ parsed.err = ""
        /\ parsed.td # NilTable
        /\ parsed.td.Headers = [i \in 1..Len(td.Headers) |-> TrimSpace(td.Headers[i])]
        /\ Len(parsed.td.Rows) = Len(td.Rows)
        /\ \A r \in 1..Len(td.Rows) :
              /\ Len(parsed.td.Rows[r]) = Len(td.Rows[r])
              /\ \A i \in 1..Len(td.Rows[r]) :
                    parsed.td.Rows[r][i].Raw = TrimSpace(RenderedText(td.Rows[r][i]))
        /\ Validate(parsed.td) = ""

\* C14 witness: a two-column table with a "-" cell and a Null cell came back
\* with its two rows
C14_Witness ==
    /\ pc = "asciireparsed"
    /\ Len(td.Headers) = 2
    /\ Len(td.Rows) = 2
    /\ td.Rows[1][1] = NewStringValue("-")
    /\ td.Rows[2][2] = NewNullValue
    /\ parsed.err = ""
    /\ Len(parsed.td.Rows) = 2
    /\ parsed.td.Rows[1][1].Raw = "-"

\* the number of '|' in the first non-blank line of a text
BarsOfFirstLine(text) == Len(OffsetsOf(NonBlankLines(text)[1], "|"))

\* C15: ASCIIParser accepts psql-aligned input: a header line with N-1 bars
\* gives N headers, every data line gives a row of N cells; the tested sample
\* gives the headers cspProductName, dbProduct, financeCode and 3 rows, the
\* first of them ae, ae, au.
C15_LegacyAcceptsPsql ==
    (pc = "asciiparsed" /\ input \in ASCIIPsqlInputs) =>
        /\ parsed.err = ""
        /\ parsed.td # NilTable
        /\ Len(parsed.td.Headers) = BarsOfFirstLine(input) + 1
        /\ Len(parsed.td.Rows) = Len(NonBlankLines(input)) - 2
        /\ \A r \in 1..Len(parsed.td.Rows) :
              Len(parsed.td.Rows[r]) = BarsOfFirstLine(input) + 1
        /\ input = ASCIIPsqlSample =>
              /\ parsed.td.Headers = <<"cspProductName", "dbProduct", "financeCode">>
              /\ Len(parsed.td.Rows) = 3
              /\ [i \in 1..3 |-> parsed.td.Rows[1][i].Raw] = <<"ae", "ae", "au">>

\* the Register calls that succeeded for a name equal to n in lower case
SuccessfulRegistrations(n) ==
    {k \in 1..Len(regLog) : regLog[k].err = "" /\ ToLower(regLog[k].name) = ToLower(n)}

\* the first of them
FirstRegistration(n) ==
    regLog[CHOOSE k \in SuccessfulRegistrations(n) :
               \A j \in SuccessfulRegistrations(n) : k <= j]

\* C16: Register fails and changes nothing for the empty name and for a name
\* that is registered already in lower case, else it adds exactly one entry;
\* a lookup of a name, in any letter case, gives what the first successful
\* registration of the name gave (an error where that was nil), and an error
\* for a name never registered.
C16_Registration ==
    /\ \A k \in 1..Len(regLog) :
          LET e == regLog[k]
          IN  IF e.name = "" \/ \E f \in e.before : f.Name = ToLower(e.name)
              THEN e.err # "" /\ e.after = e.before
              ELSE /\ e.err = ""
                   /\ e.after = e.before \cup
                          {[Name |-> ToLower(e.name), Parser |-> e.p, Serializer |-> e.s]}
                   /\ Cardinality(e.after) = Cardinality(e.before) + 1
    /\ (Len(regLog) > 0 => registry = regLog[Len(regLog)].after)
    /\ (lookup.fn # "none" /\ SuccessfulRegistrations(lookup.name) = {}) =>
          /\ lookup.err # ""
          /\ lookup.out = (IF lookup.fn = "GetFormat" THEN NilInfo ELSE NilImpl)
    /\ (lookup.fn # "none" /\ SuccessfulRegistrations(lookup.name) # {}) =>
          LET e == FirstRegistration(lookup.name)
          IN  CASE lookup.fn = "GetParser" ->
                      IF e.p = NilImpl THEN lookup.err # "" /\ lookup.out = NilImpl
                      ELSE lookup.err = "" /\ lookup.out = e.p
                [] lookup.fn = "GetSerializer" ->
                      IF e.s = NilImpl THEN lookup.err # "" /\ lookup.out = NilImpl
                      ELSE lookup.err = "" /\ lookup.out = e.s
                [] lookup.fn = "GetFormat" ->
                      /\ lookup.err = ""
                      /\ lookup.out = [Name |-> ToLower(lookup.name),
                                       Parser |-> e.p, Serializer |-> e.s]

\* C16 witness: "csv" was registered, a second registration as "CSV" was
\* refused, and GetParser("CSV") gives the parser of the first registration
C16_Witness ==
    /\ Len(regLog) = 2
    /\ regLog[1].name = "csv" /\ regLog[1].p = "p1" /\ regLog[1].err = ""
    /\ regLog[2].name = "CSV" /\ regLog[2].p = "p2" /\ regLog[2].err # ""
    /\ lookup.fn = "GetParser" /\ lookup.name = "CSV"
    /\ lookup.err = "" /\ lookup.out = "p1"

\* the index of the first separator line of ls (there is one)
FirstSeparatorIndex(ls) ==
    CHOOSE i \in 1..Len(ls) : isSeparatorLine(ls[i]) /\ \A j \in 1..(i - 1) : ~isSeparatorLine(ls[j])

\* the first character of a line that is no white space
FirstNonSpace(line) == Ch(TrimSpace(line), 1)

\* rule 1 applies: some line is made of '=', spaces and tabs only (with at
\* least one '=', white space around it ignored) and no line holds a '|'
RSTSimpleRule(ls) ==
    /\ \E i \in 1..Len(ls) :
          /\ Contains(ls[i], "=")
          /\ \A k \in 1..Len(TrimSpace(ls[i])) : Ch(TrimSpace(ls[i]), k) \in {"=", " ", "\t"}
    /\ \A i \in 1..Len(ls) : ~Contains(ls[i], "|")

\* rule 4 applies: rule 1 does not, and some separator line holds '+' and '='
RSTGridRule(ls) ==
    /\ ~RSTSimpleRule(ls)
    /\ \E i \in 1..Len(ls) :
          isSeparatorLine(ls[i]) /\ Contains(ls[i], "+") /\ Contains(ls[i], "=")

\* neither rule 1 nor rule 4 applies and there is a separator line
LaterRules(ls) ==
    /\ ~RSTSimpleRule(ls)
    /\ ~RSTGridRule(ls)
    /\ \E i \in 1..Len(ls) : isSeparatorLine(ls[i])

\* C17: detectStyle returns rst-simple exactly when some line is made of '='
\* and white space (spaces and tabs) only and no line of the input holds a
\* '|', whatever separator lines the input holds.
C17_RSTSimpleRule ==
    pc = "parsed" =>
        LET ls == NonBlankLines(input)
        IN  ls # <<>> => (parser.DetectedStyle = StyleRSTSimple <=> RSTSimpleRule(ls))

\* C17 witness: a psql divider followed by a line of '=' is rst-simple
C17_Witness ==
    /\ pc = "parsed"
    /\ NonBlankLines(input) = <<"-+-", "===">>
    /\ parser.DetectedStyle = StyleRSTSimple

\* C18: when rule 1 does not apply and any separator line holds both '+' and
\* '=', detectStyle returns rst-grid, whatever the first separator line is.
C18_RSTGridPriority ==
    pc = "parsed" =>
        LET ls == NonBlankLines(input)
        IN  (ls # <<>> /\ RSTGridRule(ls)) => parser.DetectedStyle = StyleRSTGrid

\* C18 witness: the first separator line alone reads as psql, a later one
\* holds '+' and '='
C18_Witness ==
    /\ pc = "parsed"
    /\ NonBlankLines(input) = <<"a | b", "---", "+=+">>
    /\ parser.DetectedStyle = StyleRSTGrid

\* C19: when neither rule 1 nor rule 4 applies, detectStyle returns psql if
\* the first separator line starts (after white space) with a character
\* other than '|' and '+'; when it starts with '|' or '+', or there is no
\* separator line, the result is never psql.
C19_PsqlRule ==
    pc = "parsed" =>
        LET ls == NonBlankLines(input)
        IN  /\ (LaterRules(ls) /\ FirstNonSpace(ls[FirstSeparatorIndex(ls)]) \notin {"|", "+"})
                  => parser.DetectedStyle = StylePsql
            /\ ((\E i \in 1..Len(ls) : isSeparatorLine(ls[i]))
                   /\ FirstNonSpace(ls[FirstSeparatorIndex(ls)]) \in {"|", "+"})
                  => parser.DetectedStyle # StylePsql

\* C19 witness: bar rows with a first separator line that starts with '='
C19_Witness ==
    /\ pc = "parsed"
    /\ NonBlankLines(input) = <<"| a |", "===">>
    /\ parser.DetectedStyle = StylePsql

\* rule 7 is reached: rules 1 and 4 do not apply, the first separator line
\* starts with '|' or '+', is not both '+'-prefixed and '+'-suffixed, and
\* holds a '+'
OrgOrBoxCase(ls) ==
    /\ LaterRules(ls)
    /\ LET t == TrimSpace(ls[FirstSeparatorIndex(ls)])
       IN  /\ Ch(t, 1) \in {"|", "+"}
           /\ ~(Ch(t, 1) = "+" /\ Ch(t, Len(t)) = "+")
           /\ Contains(t, "+")

\* the line before the first separator line starts with '|'
PrecededByBarLine(ls) ==
    /\ FirstSeparatorIndex(ls) > 1
    /\ FirstNonSpace(ls[FirstSeparatorIndex(ls) - 1]) = "|"

\* some '+' of the first separator line lies between a leading and a trailing '|'
PlusEnclosedByBars(ls) ==
    LET t == TrimSpace(ls[FirstSeparatorIndex(ls)])
    IN  /\ Ch(t, 1) = "|"
        /\ Ch(t, Len(t)) = "|"
        /\ \E k \in 2..(Len(t) - 1) : Ch(t, k) = "+"

\* C20 as stated: in the case of rule 7, detectStyle returns org exactly when
\* a '+' of the separator is enclosed by a leading and a trailing '|' and the
\* line before the separator starts with '|', and box otherwise.
C20_OrgVsBox ==
    pc = "parsed" =>
        LET ls == NonBlankLines(input)
        IN  OrgOrBoxCase(ls) =>
                parser.DetectedStyle =
                    IF PlusEnclosedByBars(ls) /\ PrecededByBarLine(ls)
                    THEN StyleOrgMode ELSE StyleBox

\* C20 amended: in the case of rule 7, detectStyle returns org exactly when
\* the separator starts with '|' (a trailing '|' is not needed) and the line
\* before it starts with '|', and box otherwise.
C20_OrgVsBoxLeadingBar ==
    pc = "parsed" =>
        LET ls == NonBlankLines(input)
        IN  OrgOrBoxCase(ls) =>
                parser.DetectedStyle =
                    IF FirstNonSpace(ls[FirstSeparatorIndex(ls)]) = "|" /\ PrecededByBarLine(ls)
                    THEN StyleOrgMode ELSE StyleBox

\* C20 witness: a separator with a leading '|', a '+' and no trailing '|',
\* after a bar row, is org
C20_Witness ==
    /\ pc = "parsed"
    /\ NonBlankLines(input) = <<"| a |", "|-+-">>
    /\ parser.DetectedStyle = StyleOrgMode

\* a separator line in words: only characters of + - = | : space and tab, and
\* at least one '-' or '='
SeparatorText(line) ==
    /\ \A k \in 1..Len(line) : Ch(line, k) \in {"+", "-", "=", "|", ":", " ", "\t"}
    /\ \E k \in 1..Len(line) : Ch(line, k) \in {"-", "="}

\* C21: for every non-empty list of non-blank lines detectStyle returns one of
\* the six styles; when the rst-simple rule does not apply and no line is a
\* separator line, it returns box.
C21_TotalityAndDefault ==
    pc = "parsed" =>
        LET ls == NonBlankLines(input)
        IN  ls # <<>> =>
                /\ parser.DetectedStyle \in Styles
                /\ (~RSTSimpleRule(ls) /\ \A i \in 1..Len(ls) : ~SeparatorText(ls[i]))
                      => parser.DetectedStyle = StyleBox

\* C21 witness: bar rows without any separator line are box
C21_Witness ==
    /\ pc = "parsed"
    /\ NonBlankLines(input) = <<"| a |", "a | b">>
    /\ parser.DetectedStyle = StyleBox

\* the boundaries the claim gives for a psql input: 0, the offset of every '+'
\* of the first separator line, the maximum line length
PsqlBoundariesOf(ls) ==
    <<0>> \o OffsetsOf(ls[FirstSeparatorIndex(ls)], "+") \o <<MaxLineLen(ls)>>

\* C22: for every input classified psql, the column boundaries are 0, then the
\* offset of every '+' of the first separator line, then the maximum line
\* length (N+1 offsets for N columns, also when that line holds no '+').
C22_PsqlBoundaries ==
    (pc \in {"parsed", "reparsed"} /\ NonBlankLines(input) # <<>>
        /\ parser.DetectedStyle = StylePsql) =>
        findColumnBoundaries(ReadLines(input), parser.DetectedStyle)
            = PsqlBoundariesOf(NonBlankLines(input))

BarStyles == {StyleBox, StyleMarkdown, StyleOrgMode, StyleRSTGrid}

\* the indices of the lines of ls that are no separator lines and hold at
\* least n '|'
BarLines(ls, n) ==
    {i \in 1..Len(ls) : ~SeparatorText(ls[i]) /\ Len(OffsetsOf(ls[i], "|")) >= n}

\* the first line of ls with an index in S (S is not empty)
FirstOf(ls, S) == ls[CHOOSE i \in S : \A j \in S : i <= j]

\* C23 as stated: for an input classified box, md, org or rst-grid the column
\* boundaries are the offsets of every '|' of the first non-separator line
\* that holds a '|'; when that line holds fewer than two, Parse fails with the
\* boundary error.
C23_BarBoundaries ==
    (pc \in {"parsed", "reparsed"} /\ parser.DetectedStyle \in BarStyles) =>
        LET ls == NonBlankLines(input)
        IN  (ls # <<>> /\ BarLines(ls, 1) # {}) =>
                IF Len(OffsetsOf(FirstOf(ls, BarLines(ls, 1)), "|")) >= 2
                THEN findColumnBoundaries(ReadLines(input), parser.DetectedStyle)
                        = OffsetsOf(FirstOf(ls, BarLines(ls, 1)), "|")
                ELSE parsed.err = BoundaryError

\* C23 amended: the column boundaries are the offsets of every '|' of the first
\* non-separator line that holds at least two '|', lines with a single '|'
\* being passed over; Parse fails with the boundary error exactly when no
\* non-separator line holds two '|'.
C23_BarBoundariesTwoBars ==
    (pc \in {"parsed", "reparsed"} /\ parser.DetectedStyle \in BarStyles) =>
        LET ls == NonBlankLines(input)
        IN  ls # <<>> =>
                IF BarLines(ls, 2) # {}
                THEN /\ findColumnBoundaries(ReadLines(input), parser.DetectedStyle)
                            = OffsetsOf(FirstOf(ls, BarLines(ls, 2)), "|")
                     /\ parsed.err = ""
                ELSE parsed.err = BoundaryError /\ parsed.td = NilTable

\* C23 witness: the first line with a '|' holds one, the next holds two and
\* gives the boundaries
C23_Witness ==
    /\ pc = "parsed"
    /\ NonBlankLines(input) = <<"a | b", "| a |", "|---|">>
    /\ parser.DetectedStyle = StyleMarkdown
    /\ parsed.err = ""
    /\ parsed.td.Headers = <<"|">>

\* the lines of ls that are no separator lines, in order
NonSeparatorLines(ls) ==
    LET keep == SortedSeq({i \in 1..Len(ls) : ~SeparatorText(ls[i])})
    IN  [n \in 1..Len(keep) |-> ls[keep[n]]]

\* the cells a line is decoded to in the table of lines ls read in the given style
DecodedCells(ls, style, line) ==
    IF style = StyleRSTSimple
    THEN parseRSTSimpleRow(line,
            findRSTSimpleColumns(FirstOf(ls, {i \in 1..Len(ls) : IsEqualsLine(ls[i])})))
    ELSE parseDataRow(line, findColumnBoundaries(ls, style), style)

\* C24: in every style, rst-simple included, no separator line gives a header
\* or a data row: the headers are the cells of the first non-separator line
\* and every later non-separator line gives exactly one data row, in input
\* order, a divider between two data rows being skipped.
C24_RowDecodingOrder ==
    (pc \in {"parsed", "reparsed"} /\ parsed.err = "") =>
        LET ls == NonBlankLines(input)
            dls == NonSeparatorLines(ls)
        IN  dls # <<>> =>
                /\ parsed.td.Headers = DecodedCells(ls, parser.DetectedStyle, dls[1])
                /\ Len(parsed.td.Rows) = Len(dls) - 1
                /\ \A r \in 1..Len(parsed.td.Rows) :
                      r + 1 <= Len(dls) =>
                          [i \in 1..Len(parsed.td.Rows[r]) |-> parsed.td.Rows[r][i].Raw]
                              = DecodedCells(ls, parser.DetectedStyle, dls[r + 1])

\* C25: decoding a line of any length, the empty line included, with the
\* boundaries of the column locator takes only slices with
\* 0 <= start <= end <= len(line), returns exactly one cell per column, and
\* returns the empty string for every column that starts at or beyond the end
\* of the line; the same bounds hold for the lines Parse itself decodes.
C25_ShortLines ==
    /\ pc = "decoded" =>
        /\ Len(arg.cells) = arg.columns
        /\ Len(arg.slices) = arg.columns
        /\ \A i \in 1..Len(arg.slices) :
              IF arg.slices[i] = <<>>
              THEN arg.cells[i] = ""
              ELSE /\ 0 <= arg.slices[i][1]
                   /\ arg.slices[i][1] <= arg.slices[i][2]
                   /\ arg.slices[i][2] <= Len(arg.line)
                   /\ arg.cells[i] =
                        TrimSpace(TrimSet(Slice(arg.line, arg.slices[i][1], arg.slices[i][2]),
                                          IF parser.DetectedStyle = StylePsql THEN {"|"} ELSE {}))
        /\ \A i \in 1..Len(arg.cells) :
              (\A j \in i..Len(arg.cells) : arg.slices[j] = <<>>) => arg.cells[i] = ""
        /\ (arg.line = "" => \A i \in 1..Len(arg.cells) : arg.cells[i] = "")
    /\ (pc = "parsed" /\ parsed.err = "" /\ parser.DetectedStyle # StyleRSTSimple) =>
          LET lines == ReadLines(input)
              cb == findColumnBoundaries(lines, parser.DetectedStyle)
          IN  \A n \in 1..Len(lines) :
                  LET sl == parseDataRowSlices(lines[n], cb, parser.DetectedStyle)
                  IN  \A i \in 1..Len(sl) :
                          sl[i] # <<>> =>
                              0 <= sl[i][1] /\ sl[i][1] <= sl[i][2] /\ sl[i][2] <= Len(lines[n])

\* C25 witness: a line shorter than the second column of the box sample has
\* been decoded to three cells, the last two empty
C25_Witness ==
    /\ pc = "decoded"
    /\ input = SampleInput(StyleBox)
    /\ arg.line = "| a"
    /\ arg.cells = <<"a", "", "">>

\* the styles written with a top and a bottom border
BorderedStyles == {StyleBox, StyleRSTGrid, StyleRSTSimple}

\* a line without its '|' and its spaces
Squeeze(line) ==
    Concat([k \in 1..Len(line) |-> IF Ch(line, k) \in {"|", " "} THEN "" ELSE Ch(line, k)])

\* the lines of the data rows in the order the claim gives: row after row,
\* with one divider between two consecutive rows when dividers is set
ExpectedDataLines(R, dividers) ==
    IF R = 0 THEN <<>>
    ELSE [n \in 1..(IF dividers THEN 2 * R - 1 ELSE R) |->
            IF ~dividers THEN [kind |-> "row", row |-> n]
            ELSE IF n % 2 = 1 THEN [kind |-> "row", row |-> (n + 1) \div 2]
            ELSE [kind |-> "divider", row |-> 0]]

\* the lines of a table of R rows in order: top border (bordered styles),
\* header row, header/data divider, the data lines, bottom border
ExpectedLines(style, R, dividers) ==
    (IF style \in BorderedStyles THEN <<[kind |-> "divider", row |-> 0]>> ELSE <<>>)
    \o <<[kind |-> "header", row |-> 0], [kind |-> "divider", row |-> 0]>>
    \o ExpectedDataLines(R, dividers)
    \o (IF style \in BorderedStyles THEN <<[kind |-> "divider", row |-> 0]>> ELSE <<>>)

\* the written lines are, one by one, what exp says: a border or divider is a
\* separator line, the header row holds the headers, the row of index r holds
\* the rendered cells of the r-th row of the table (compared without spaces)
LinesAre(lines, exp, t) ==
    /\ Len(lines) = Len(exp)
    /\ \A n \in 1..Len(exp) :
          n <= Len(lines) =>
              CASE exp[n].kind = "divider" -> SeparatorText(lines[n])
                [] exp[n].kind = "header" ->
                      ~SeparatorText(lines[n]) /\ Squeeze(lines[n]) = Squeeze(Concat(t.Headers))
                [] OTHER ->
                      /\ ~SeparatorText(lines[n])
                      /\ Squeeze(lines[n]) =
                            Squeeze(Concat([i \in 1..Len(t.Rows[exp[n].row]) |->
                                               RenderedText(t.Rows[exp[n].row][i])]))

\* C26 as stated: Serialize writes top border (box, rst-grid, rst-simple),
\* header row, header/data divider, the R data rows in table order and bottom
\* border (same three styles), R+4 or R+2 lines; with RowSeparators set one
\* divider is written between two consecutive data rows, none before the
\* first or after the last.
C26_LineOrder ==
    (pc = "serialized" /\ serRet = "nil" /\ ser.Style \in Styles /\ Len(td.Headers) >= 1) =>
        /\ LinesAre(ScanLines(output), ExpectedLines(ser.Style, Len(td.Rows), ser.RowSeparators), td)
        /\ ~ser.RowSeparators =>
              Len(ScanLines(output)) = Len(td.Rows) + (IF ser.Style \in BorderedStyles THEN 4 ELSE 2)

\* C26 amended: the same order, the dividers between data rows being written
\* with RowSeparators set in the styles box and rst-grid only; in psql, md,
\* org and rst-simple the lines are the same with and without RowSeparators.
C26_LineOrderDividersBoxGrid ==
    (pc = "serialized" /\ serRet = "nil" /\ ser.Style \in Styles /\ Len(td.Headers) >= 1) =>
        /\ LinesAre(ScanLines(output),
                    ExpectedLines(ser.Style, Len(td.Rows),
                                  ser.RowSeparators /\ ser.Style \in {StyleBox, StyleRSTGrid}),
                    td)
        /\ (~ser.RowSeparators \/ ser.Style \notin {StyleBox, StyleRSTGrid}) =>
              Len(ScanLines(output)) = Len(td.Rows) + (IF ser.Style \in BorderedStyles THEN 4 ELSE 2)

\* C26 witness: a box table of two rows written with RowSeparators has seven
\* lines
C26_Witness ==
    /\ pc = "serialized"
    /\ serRet = "nil"
    /\ ser = [Style |-> StyleBox, RowSeparators |-> TRUE]
    /\ Len(td.Rows) = 2
    /\ Len(td.Headers) = 2
    /\ Len(ScanLines(output)) = 7

\* a letter or a digit
IsAlnum(c) ==
    \/ \E i \in 1..26 : Ch(UpperLetters, i) = c \/ Ch(LowerLetters, i) = c
    \/ IsDigit(c)

\* no '|', no line break, no white space at either end
PlainText(s) ==
    /\ \A k \in 1..Len(s) : Ch(s, k) \notin {"|", "\n", "\r"}
    /\ s = TrimSpace(s)

\* at least two columns, headers that are non-empty words of letters and
\* digits, in every row a cell with a letter or digit, every cell a plain text
SafeTable(t) ==
    /\ t # NilTable
    /\ Validate(t) = ""
    /\ Len(t.Headers) >= 2
    /\ \A i \in 1..Len(t.Headers) :
          t.Headers[i] # "" /\ \A k \in 1..Len(t.Headers[i]) : IsAlnum(Ch(t.Headers[i], k))
    /\ \A r \in 1..Len(t.Rows) :
          /\ \E i \in 1..Len(t.Rows[r]) :
                \E k \in 1..Len(RenderedText(t.Rows[r][i])) :
                    IsAlnum(Ch(RenderedText(t.Rows[r][i]), k))
          /\ \A i \in 1..Len(t.Rows[r]) : PlainText(RenderedText(t.Rows[r][i]))

\* C27: for every table of at least two columns with headers of letters and
\* digits, a letter or digit in every row and only plain cell texts, and for
\* each of the six styles, Parse of what Serialize wrote succeeds and returns
\* the headers, the number of rows and the rendered cell texts of the table.
C27_SafeRoundTrip ==
    (pc = "reparsed" /\ ser.Style \in Styles /\ SafeTable(td)) =>
        /\ parsed.err = ""
        /\ parsed.td # NilTable
        /\ parsed.td.Headers = td.Headers
        /\ Len(parsed.td.Rows) = Len(td.Rows)
        /\ \A r \in 1..Len(td.Rows) :
              r <= Len(parsed.td.Rows) =>
                  [i \in 1..Len(parsed.td.Rows[r]) |-> parsed.td.Rows[r][i].Raw]
                      = [i \in 1..Len(td.Rows[r]) |-> RenderedText(td.Rows[r][i])]

\* C27 witness: a psql table with a '-' cell and a cell with a space has been
\* read back
C27_Witness ==
    /\ pc = "reparsed"
    /\ ser.Style = StylePsql
    /\ SafeTable(td)
    /\ Len(td.Rows) = 2
    /\ RenderedText(td.Rows[1][1]) = "-"
    /\ parsed.err = ""
    /\ parsed.td.Rows[2][1].Raw = "New York"

\* at least one column, headers that are non-empty words of letters and digits
WordHeaders(t) ==
    /\ t # NilTable
    /\ Validate(t) = ""
    /\ Len(t.Headers) >= 1
    /\ \A i \in 1..Len(t.Headers) :
          t.Headers[i] # "" /\ \A k \in 1..Len(t.Headers[i]) : IsAlnum(Ch(t.Headers[i], k))

\* C28: for every style and every table with at least one column and headers
\* of letters and digits, Parse of what Serialize wrote succeeds and returns a
\* table with the same number of columns and of rows, single-column tables
\* and tables with a row of Null cells included.
C28_ShapePreserved ==
    (pc = "reparsed" /\ ser.Style \in Styles /\ WordHeaders(td)) =>
        /\ parsed.err = ""
        /\ parsed.td # NilTable
        /\ Len(parsed.td.Headers) = Len(td.Headers)
        /\ Len(parsed.td.Rows) = Len(td.Rows)

\* every cell is rendered as a non-empty word of letters and digits
WordCells(t) ==
    \A r \in 1..Len(t.Rows) : \A i \in 1..Len(t.Rows[r]) :
        /\ RenderedText(t.Rows[r][i]) # ""
        /\ \A k \in 1..Len(RenderedText(t.Rows[r][i])) : IsAlnum(Ch(RenderedText(t.Rows[r][i]), k))

\* C29: for every style s and every table with at least one column whose
\* headers and cells are words of letters and digits, parsing what Serialize
\* wrote in style s leaves the parser's DetectedStyle at s.
C29_StylePreserved ==
    (pc = "reparsed" /\ ser.Style \in Styles /\ WordHeaders(td) /\ WordCells(td)) =>
        parser.DetectedStyle = ser.Style

\* no header and no rendered cell of the table holds '|', '+' or a line break
NoDelimiterTexts(t) ==
    LET Free(s) == \A k \in 1..Len(s) : Ch(s, k) \notin {"|", "+", "\n", "\r"}
    IN  /\ \A i \in 1..Len(t.Headers) : Free(t.Headers[i])
        /\ \A r \in 1..Len(t.Rows) : \A i \in 1..Len(t.Rows[r]) : Free(RenderedText(t.Rows[r][i]))

\* the 0-based offsets at which a run of '=' starts, in order
RunStarts(line) ==
    SortedSeq({k - 1 : k \in {j \in 1..Len(line) :
                                Ch(line, j) = "=" /\ (j = 1 \/ Ch(line, j - 1) # "=")}})

\* the texts of the header row (row 0) or of the r-th data row
TextsOfLine(t, r) ==
    IF r = 0 THEN t.Headers
    ELSE [i \in 1..Len(t.Rows[r]) |-> RenderedText(t.Rows[r][i])]

\* C30: for every table with at least one header whose texts hold no '|', '+'
\* or line break, and every style, all written lines have the same length;
\* every '|' of a header or data row is at the offset of a '+' or '|' of every
\* border and divider line; in rst-simple every cell starts at the offset
\* where the run of '=' of its column starts.
C30_Alignment ==
    (pc = "serialized" /\ serRet = "nil" /\ ser.Style \in Styles /\ Len(td.Headers) >= 1
        /\ NoDelimiterTexts(td)) =>
        LET lines == ScanLines(output)
            exp == ExpectedLines(ser.Style, Len(td.Rows),
                                 ser.RowSeparators /\ ser.Style \in {StyleBox, StyleRSTGrid})
            rowLines == {n \in 1..Len(lines) : exp[n].kind # "divider"}
            sepLines == {n \in 1..Len(lines) : exp[n].kind = "divider"}
        IN  /\ Len(lines) = Len(exp)
            /\ \A n \in 1..Len(lines) : Len(lines[n]) = Len(lines[1])
            /\ ser.Style # StyleRSTSimple =>
                  \A n \in rowLines : \A k \in 1..Len(lines[n]) :
                      Ch(lines[n], k) = "|" =>
                          \A m \in sepLines : Ch(lines[m], k) \in {"+", "|"}
            /\ ser.Style = StyleRSTSimple =>
                  \A n \in rowLines :
                      LET starts == RunStarts(lines[1])
                          texts == TextsOfLine(td, exp[n].row)
                      IN  /\ Len(starts) = Len(texts)
                          /\ \A i \in 1..Len(texts) :
                                Slice(lines[n], starts[i], starts[i] + Len(texts[i])) = texts[i]

\* C30 witness: a psql table of two columns and two rows has been written as
\* four lines of nine characters
C30_Witness ==
    /\ pc = "serialized"
    /\ serRet = "nil"
    /\ ser.Style = StylePsql
    /\ Len(td.Headers) = 2
    /\ Len(td.Rows) = 2
    /\ NoDelimiterTexts(td)
    /\ Len(ScanLines(output)) = 4
    /\ \A n \in 1..4 : Len(ScanLines(output)[n]) = 9

====
